---- MODULE Spec2Model ----
(***************************************************************************)
(* Model of the decision core of the book-of-business agents:              *)
(*   - Policy Flag Engine        (agents/logic.py, agent_one/main.py)      *)
(*   - Alert Mapper              (agents/iri_client 2.py)                  *)
(*   - Profile Merge / Recommendation Synthesizer / Explanation Builder    *)
(*                               (agents/recommendations.py)               *)
(*   - the agentTwo tool handler (agent_two/main.py)                       *)
(*                                                                         *)
(* Conventions.  Python None of a string-valued field is the string NONE;  *)
(* an optional integer is a sequence of length 0 (None) or 1.  Dates are   *)
(* day ordinals; rates are hundredths of a percentage point.               *)
(***************************************************************************)
EXTENDS Integers, Sequences, FiniteSets, TLC

VARIABLES
    today,          \* the calendar day date.today() returns
    policies,       \* the policies /passthrough/policy-data returns
    book,           \* the BookOfBusinessOutput of the latest agent-one run
    first_book,     \* the BookOfBusinessOutput of the first agent-one run
    alerts,         \* the latest call of map_book_of_business_to_iri_alerts:
                    \* the book it was given (of), the alerts and the stats
    client_id,      \* generate_recommendations: the client_id argument
    db_context,     \* generate_recommendations: the db_context argument
    changes,        \* generate_recommendations: the ProfileChangesInput argument
    max_recommendations,    \* generate_recommendations: the max_recommendations argument
    rec_out,        \* the ProductRecommendationsOutput of the latest call, <<>> before it
    tool_calls,     \* the invocations of the tool generate_product_recommendations so
                    \* far: arguments, environment, effects, audit events and result
    product_options, \* the product options the Puddle Data API serves
    chat_calls,     \* the calls of run_chat so far: arguments, what the agent gave
                    \* back, the audit events persisted and the outcome
    built_row,      \* build_profile_row_from_changes: the account number and the
                    \* existing row it is given, and the row it returns
    alerts_table    \* the rows of the table alerts that POST /alerts has written

flagVars == <<today, policies, book, first_book, alerts>>
recVars == <<client_id, db_context, changes, max_recommendations, rec_out>>
toolVars == <<tool_calls, product_options>>
chatVars == <<chat_calls>>
rowVars == <<built_row>>
apiVars == <<alerts_table>>
vars == <<flagVars, recVars, toolVars, chatVars, rowVars, apiVars>>

NONE == "<None>"
NoInt == <<>>
Some(n) == <<n>>

(***************************************************************************)
(* Bounds of the model.                                                    *)
(***************************************************************************)
MaxToday == 1

(***************************************************************************)
(* Strings: lower() and substring tests on the strings of the model.       *)
(***************************************************************************)
Lower(s) ==
    CASE s = "Inforce" -> "inforce"
      [] s = "INFORCE" -> "inforce"
      [] s = "Lapsed" -> "lapsed"
      [] s = "Fixed Annuity Plus" -> "fixed annuity plus"
      [] s = "Level Term 20" -> "level term 20"
      [] s = "Variable Growth" -> "variable growth"
      [] s = "Fixed Annuity" -> "fixed annuity"
      [] s = "Whole Life" -> "whole life"
      [] s = "Rate" -> "rate"
      [] OTHER -> s

\* `sub in s` for the lower-case strings of the model
Contains(s, sub) ==
    CASE sub = "fixed" -> s \in {"fixed annuity plus", "fixed annuity"}
      [] sub = "term" -> s \in {"level term 20"}
      [] sub = "annuity" -> s \in {"fixed annuity plus", "fixed annuity"}
      [] sub = "life" -> s \in {"whole life"}
      [] OTHER -> FALSE

StartsWithT(s) == s \in {"T20"}

\* `x or ""` for a string-valued field
OrEmpty(s) == IF s = NONE THEN "" ELSE s

\* "; ".join(parts)
RECURSIVE Join(_)
Join(parts) ==
    IF Len(parts) = 0 THEN ""
    ELSE IF Len(parts) = 1 THEN parts[1]
    ELSE parts[1] \o "; " \o Join(Tail(parts))

(***************************************************************************)
(* Policy Flag Engine (agents/logic.py)                                    *)
(***************************************************************************)
RENEWAL_NOTIFICATION_DAYS == 30

NoDate == [kind |-> "none", day |-> 0]
BadDate == [kind |-> "unparsable", day |-> 0]
OnDay(d) == [kind |-> "date", day |-> d]
\* the date of day d written as an 11-character "%d-%b-%Y" string ("15-Mar-2026")
OnDayDmy(d) == [kind |-> "dmy11", day |-> d]

\* a or b for raw date fields: the first truthy one
OrDate(a, b) == IF a.kind # "none" THEN a ELSE b

get_renewal_info(policy, day) ==
    LET raw == OrDate(policy.renewalDate,
                 OrDate(policy.maturityDate,
                   OrDate(policy.nextPremiumDueDate, policy.coveredUntilDate)))
        delta == raw.day - day
    IN  IF raw.kind = "none"
        THEN [renewal_date |-> [kind |-> "none", day |-> 0], days_until_renewal |-> NoInt]
        ELSE IF raw.kind \in {"unparsable", "dmy11"}
        THEN \* no format matches raw.strip()[:10]: "15-Mar-202" is not a "%d-%b-%Y" date
             [renewal_date |-> [kind |-> "raw", day |-> 0], days_until_renewal |-> NoInt]
        ELSE [renewal_date |-> [kind |-> "iso", day |-> raw.day],
              days_until_renewal |-> IF delta >= 0 THEN Some(delta) ELSE NoInt]

MaturingReason == "Policy maturing in next 30 days; consider replacement options"

\* variant: the window starts at day 0
InRenewalWindow_from_zero(days) ==
    days # NoInt /\ 0 <= days[1] /\ days[1] <= RENEWAL_NOTIFICATION_DAYS

InRenewalWindow(days) ==
    days # NoInt /\ 1 <= days[1] /\ days[1] <= RENEWAL_NOTIFICATION_DAYS

\* variant: the product heuristic is tried before the renewal window
check_replacement_opportunity_heuristic_first(policy, days_until_renewal) ==
    LET product_name == OrEmpty(policy.productName)
        product_code == OrEmpty(policy.productCode)
        status == Lower(OrEmpty(policy.status))
    IN  IF status # "inforce"
        THEN [flag |-> FALSE, reason |-> NONE]
        ELSE IF Contains(Lower(product_name), "fixed") \/ Contains(Lower(product_name), "term")
        THEN [flag |-> TRUE,
              reason |-> "Fixed/term product may have replacement options for better value"]
        ELSE IF product_code # "" /\ StartsWithT(product_code)
        THEN [flag |-> TRUE,
              reason |-> "Term policy; conversion or replacement may be beneficial"]
        ELSE IF InRenewalWindow(days_until_renewal)
        THEN [flag |-> TRUE, reason |-> MaturingReason]
        ELSE [flag |-> FALSE, reason |-> NONE]

check_replacement_opportunity(policy, days_until_renewal) ==
    LET product_name == OrEmpty(policy.productName)
        product_code == OrEmpty(policy.productCode)
        status == Lower(OrEmpty(policy.status))
    IN  IF status # "inforce"
        THEN [flag |-> FALSE, reason |-> NONE]
        ELSE IF InRenewalWindow(days_until_renewal)
        THEN [flag |-> TRUE, reason |-> MaturingReason]
        ELSE IF Contains(Lower(product_name), "fixed") \/ Contains(Lower(product_name), "term")
        THEN [flag |-> TRUE,
              reason |-> "Fixed/term product may have replacement options for better value"]
        ELSE IF product_code # "" /\ StartsWithT(product_code)
        THEN [flag |-> TRUE,
              reason |-> "Term policy; conversion or replacement may be beneficial"]
        ELSE [flag |-> FALSE, reason |-> NONE]

\* variant: two issues are already "high"
SeverityOf_high_at_two(n) ==
    IF n >= 2 THEN "high" ELSE IF n >= 1 THEN "medium" ELSE "low"

SeverityOf(n) ==
    IF n >= 3 THEN "high" ELSE IF n >= 1 THEN "medium" ELSE "low"

\* variant: empty roles and contacts are flagged whether or not the key is there
DataQualityIssues_any_empty_roles(policy) ==
    LET i1 == IF policy.policyNumber = NONE THEN <<"Missing policy number">> ELSE <<>>
        i2 == IF policy.carrier = NONE THEN <<"Missing carrier">> ELSE <<>>
        i3 == IF policy.effectiveDate = NONE THEN <<"Missing effective date">> ELSE <<>>
        i4 == IF /\ policy.roles.n = 0
                 /\ policy.contacts.n = 0
                 /\ policy.ID # NONE
              THEN <<"Missing roles/contacts">> ELSE <<>>
    IN  i1 \o i2 \o i3 \o i4

\* the four checks of check_data_quality, in the order they are appended
DataQualityIssues(policy) ==
    LET i1 == IF policy.policyNumber = NONE THEN <<"Missing policy number">> ELSE <<>>
        i2 == IF policy.carrier = NONE THEN <<"Missing carrier">> ELSE <<>>
        i3 == IF policy.effectiveDate = NONE THEN <<"Missing effective date">> ELSE <<>>
        i4 == IF /\ policy.roles.n = 0
                 /\ policy.contacts.n = 0
                 /\ policy.ID # NONE
                 /\ policy.roles.has_key
              THEN <<"Missing roles/contacts">> ELSE <<>>
    IN  i1 \o i2 \o i3 \o i4

\* variant: "high" for exactly three issues
check_data_quality_exactly_three(policy) ==
    LET issues == DataQualityIssues(policy)
    IN  IF Len(issues) = 0
        THEN [issues |-> <<>>, severity |-> NONE]
        ELSE [issues |-> issues,
              severity |-> IF Len(issues) = 3 THEN "high" ELSE "medium"]

check_data_quality(policy) ==
    LET issues == DataQualityIssues(policy)
    IN  IF Len(issues) = 0
        THEN [issues |-> <<>>, severity |-> NONE]
        ELSE [issues |-> issues, severity |-> SeverityOf(Len(issues))]

\* variant: an annuity with a payout schedule is not eligible
check_income_activation_eligible_accumulation_only(policy) ==
    LET product_type == Lower(OrEmpty(policy.productType))
        status == Lower(OrEmpty(policy.status))
    IN  IF status # "inforce"
        THEN [flag |-> FALSE, reason |-> NONE]
        ELSE IF Contains(product_type, "annuity")
        THEN IF ~policy.payoutSchedule
             THEN [flag |-> TRUE,
                   reason |-> "Annuity in accumulation phase; eligible for income activation or RMD"]
             ELSE [flag |-> FALSE, reason |-> NONE]
        ELSE [flag |-> FALSE, reason |-> NONE]

check_income_activation_eligible(policy) ==
    LET product_type == Lower(OrEmpty(policy.productType))
        status == Lower(OrEmpty(policy.status))
    IN  IF status # "inforce"
        THEN [flag |-> FALSE, reason |-> NONE]
        ELSE IF Contains(product_type, "annuity")
        THEN IF ~policy.payoutSchedule
             THEN [flag |-> TRUE,
                   reason |-> "Annuity in accumulation phase; eligible for income activation or RMD"]
             ELSE [flag |-> TRUE, reason |-> "Annuity with payout; income options may apply"]
        ELSE IF Contains(product_type, "life") /\ policy.cashValue
        THEN [flag |-> FALSE, reason |-> NONE]
        ELSE [flag |-> FALSE, reason |-> NONE]

\* variant: income activation alone does not trigger a meeting
recommend_schedule_meeting_no_income(replacement, data_quality_issues, income_eligible) ==
    LET reasons ==
            (IF replacement THEN <<"Replacement opportunity">> ELSE <<>>)
            \o (IF Len(data_quality_issues) > 0
                THEN <<"Data quality issues to resolve">> ELSE <<>>)
    IN  IF Len(reasons) = 0
        THEN [flag |-> FALSE, reason |-> NONE]
        ELSE [flag |-> TRUE, reason |-> Join(reasons)]

recommend_schedule_meeting(replacement, data_quality_issues, income_eligible) ==
    LET reasons ==
            (IF replacement THEN <<"Replacement opportunity">> ELSE <<>>)
            \o (IF Len(data_quality_issues) > 0
                THEN <<"Data quality issues to resolve">> ELSE <<>>)
            \o (IF income_eligible THEN <<"Income activation eligible">> ELSE <<>>)
    IN  IF Len(reasons) = 0
        THEN [flag |-> FALSE, reason |-> NONE]
        ELSE [flag |-> TRUE, reason |-> Join(reasons)]

apply_business_logic(policy, day) ==
    LET info == get_renewal_info(policy, day)
        repl == check_replacement_opportunity(policy, info.days_until_renewal)
        dq == check_data_quality(policy)
        inc == check_income_activation_eligible(policy)
        sched == recommend_schedule_meeting(repl.flag, dq.issues, inc.flag)
    IN  [renewal_date |-> info.renewal_date,
         days_until_renewal |-> info.days_until_renewal,
         replacement_opportunity |-> repl.flag,
         replacement_reason |-> repl.reason,
         data_quality_issues |-> dq.issues,
         data_quality_severity |-> dq.severity,
         income_activation_eligible |-> inc.flag,
         income_activation_reason |-> inc.reason,
         schedule_meeting |-> sched.flag,
         schedule_meeting_reason |-> sched.reason]

(***************************************************************************)
(* Agent one: book of business with notifications and flags                *)
(* (agent_one/main.py)                                                     *)
(***************************************************************************)
\* variant: the renewal notice is raised as urgent
RenewalNotification_urgent ==
    [notification_type |-> "renewal_in_30_days", severity |-> "urgent"]

RenewalNotification == [notification_type |-> "renewal_in_30_days", severity |-> "warning"]

\* the loop body of get_book_of_business_with_notifications_and_flags
PolicyOutputOf(p, day) ==
    LET logic == apply_business_logic(p, day)
        days_until == logic.days_until_renewal
    IN  [policy |-> p,
         notifications |->
             IF InRenewalWindow(days_until) THEN <<RenewalNotification>> ELSE <<>>,
         replacement_opportunity |-> logic.replacement_opportunity,
         replacement_reason |-> logic.replacement_reason,
         data_quality_issues |-> logic.data_quality_issues,
         data_quality_severity |-> logic.data_quality_severity,
         income_activation_eligible |-> logic.income_activation_eligible,
         income_activation_reason |-> logic.income_activation_reason,
         schedule_meeting |-> logic.schedule_meeting,
         schedule_meeting_reason |-> logic.schedule_meeting_reason,
         renewal_date |-> logic.renewal_date,
         days_until_renewal |-> logic.days_until_renewal]

BookOf(ps, day) ==
    [customer_identifier |-> "Marty McFly",
     policies |-> [i \in 1..Len(ps) |-> PolicyOutputOf(ps[i], day)]]

(***************************************************************************)
(* Alert Mapper (agents/iri_client 2.py)                                   *)
(***************************************************************************)
\* policy_out.data_quality_issues[:3]
FirstThree(issues) == SubSeq(issues, 1, IF Len(issues) < 3 THEN Len(issues) ELSE 3)

_policy_renewal_days(policy) ==
    IF policy.nextPremiumDueDate.kind # "none" \/ policy.coveredUntilDate.kind # "none"
    THEN 30 ELSE 0

\* variant: no default when no flag is set
_build_alert_types_no_default(policy_out) ==
    LET t1 == IF policy_out.replacement_opportunity
              THEN <<"replacement_opportunity">> ELSE <<>>
        t2 == IF Len(policy_out.data_quality_issues) > 0 THEN <<"missing_info">> ELSE <<>>
        t3 == IF policy_out.income_activation_eligible THEN <<"income_planning">> ELSE <<>>
        t4 == IF policy_out.schedule_meeting THEN <<"suitability_review">> ELSE <<>>
        types == t1 \o t2 \o t3 \o t4
    IN  [types |-> types,
         primary |-> IF Len(types) = 0 THEN NONE ELSE types[1],
         alert_description |-> "Review recommended"]

_build_alert_types_and_primary(policy_out) ==
    LET t1 == IF policy_out.replacement_opportunity
              THEN <<"replacement_opportunity">> ELSE <<>>
        d1 == IF policy_out.replacement_opportunity
              THEN IF policy_out.replacement_reason \notin {NONE, ""}
                   THEN <<policy_out.replacement_reason>>
                   ELSE <<"Replacement opportunity">>
              ELSE <<>>
        t2 == IF Len(policy_out.data_quality_issues) > 0 THEN <<"missing_info">> ELSE <<>>
        d2 == IF Len(policy_out.data_quality_issues) > 0
              THEN <<"Data quality: " \o Join(FirstThree(policy_out.data_quality_issues))>>
              ELSE <<>>
        t3 == IF policy_out.income_activation_eligible THEN <<"income_planning">> ELSE <<>>
        d3 == IF policy_out.income_activation_eligible
              THEN IF policy_out.income_activation_reason \notin {NONE, ""}
                   THEN <<policy_out.income_activation_reason>>
                   ELSE <<"Income activation eligible">>
              ELSE <<>>
        t123 == t1 \o t2 \o t3
        add4 == policy_out.schedule_meeting
                /\ \A i \in 1..Len(t123) : t123[i] # "suitability_review"
        t4 == IF add4 THEN <<"suitability_review">> ELSE <<>>
        d4 == IF add4 /\ policy_out.schedule_meeting_reason \notin {NONE, ""}
              THEN <<policy_out.schedule_meeting_reason>> ELSE <<>>
        types == t123 \o t4
        desc_parts == d1 \o d2 \o d3 \o d4
    IN  IF Len(types) = 0
        THEN [types |-> <<"suitability_review">>,
              primary |-> "suitability_review",
              alert_description |-> "Review recommended"]
        ELSE [types |-> types,
              primary |-> types[1],
              alert_description |->
                  IF Len(desc_parts) > 0 THEN Join(desc_parts)
                  ELSE IF types[1] = "suitability_review" THEN "Suitability Review"
                  ELSE types[1]]

\* variant: the final "low" is never returned
_priority_from_severity_no_low(severity, has_replacement, has_urgent_notif) ==
    IF severity = "high" \/ has_urgent_notif THEN "high" ELSE "medium"

_priority_from_severity(severity, has_replacement, has_urgent_notif) ==
    IF severity = "high" \/ has_urgent_notif THEN "high"
    ELSE IF severity = "medium" \/ has_replacement THEN "medium"
    ELSE "low"

\* variant: only the first notification is looked at
HasUrgent_first_only(policy_out) ==
    /\ Len(policy_out.notifications) > 0
    /\ policy_out.notifications[1].severity = "urgent"

HasUrgent(policy_out) ==
    \E k \in 1..Len(policy_out.notifications) :
        policy_out.notifications[k].severity = "urgent"

\* days_until of the loop body of map_book_of_business_to_iri_alerts
DaysUntilOf(policy_out) ==
    IF policy_out.days_until_renewal # NoInt
    THEN policy_out.days_until_renewal[1]
    ELSE _policy_renewal_days(policy_out.policy)

\* variant: alertTypes keeps the primary type only
AlertOf_primary_only(policy_out, i) ==
    LET policy == policy_out.policy
        policy_id == IF policy.ID \notin {NONE, ""} THEN policy.ID
                     ELSE IF policy.policyNumber \notin {NONE, ""} THEN policy.policyNumber
                     ELSE "policy-" \o ToString(i - 1)
        built == _build_alert_types_and_primary(policy_out)
        has_data_exception == Len(policy_out.data_quality_issues) > 0
    IN  [id |-> "alert-" \o policy_id \o "-renewal",
         policyId |-> policy_id,
         daysUntilRenewal |-> DaysUntilOf(policy_out),
         priority |-> _priority_from_severity(policy_out.data_quality_severity,
                                              policy_out.replacement_opportunity,
                                              HasUrgent(policy_out)),
         hasDataException |-> has_data_exception,
         status |-> "pending",
         alertType |-> built.primary,
         alertDescription |-> built.alert_description,
         missingFields |-> policy_out.data_quality_issues,
         alertTypes |-> <<built.primary>>]

\* the RenewalAlert built for the i-th policy of the book (enumerate is 0-based)
AlertOf(policy_out, i) ==
    LET policy == policy_out.policy
        policy_id == IF policy.ID \notin {NONE, ""} THEN policy.ID
                     ELSE IF policy.policyNumber \notin {NONE, ""} THEN policy.policyNumber
                     ELSE "policy-" \o ToString(i - 1)
        built == _build_alert_types_and_primary(policy_out)
        has_data_exception == Len(policy_out.data_quality_issues) > 0
    IN  [id |-> "alert-" \o policy_id \o "-renewal",
         policyId |-> policy_id,
         daysUntilRenewal |-> DaysUntilOf(policy_out),
         priority |-> _priority_from_severity(policy_out.data_quality_severity,
                                              policy_out.replacement_opportunity,
                                              HasUrgent(policy_out)),
         hasDataException |-> has_data_exception,
         status |-> "pending",
         alertType |-> built.primary,
         alertDescription |-> built.alert_description,
         missingFields |-> policy_out.data_quality_issues,
         alertTypes |-> built.types]

map_book_of_business_to_iri_alerts(b) ==
    LET n == Len(b.policies)
        as == [i \in 1..n |-> AlertOf(b.policies[i], i)]
    IN  [of |-> b,
         alerts |-> as,
         stats |-> [total |-> n,
                    high |-> Cardinality({i \in 1..n : as[i].priority = "high"}),
                    urgent |-> Cardinality({i \in 1..n : DaysUntilOf(b.policies[i]) <= 30})]]

(***************************************************************************)
(* Rates.  A rate value is None, a Python number, or a string: a numeric   *)
(* string with or without a "%" ("4.25%", "4.25"), "N/A", "", or other     *)
(* text.  n is the number in hundredths of a point.                        *)
(***************************************************************************)
RateNone == [t |-> "none", n |-> 0, pct |-> FALSE]
RateNum(n) == [t |-> "num", n |-> n, pct |-> FALSE]
RateStr(n, pct) == [t |-> "numstr", n |-> n, pct |-> pct]
RateNA == [t |-> "NA", n |-> 0, pct |-> FALSE]
RateEmpty == [t |-> "empty", n |-> 0, pct |-> FALSE]
RateText(pct) == [t |-> "text", n |-> 0, pct |-> pct]

\* bool(v)
RateTruthy(v) == ~(v.t \in {"none", "empty"} \/ (v.t = "num" /\ v.n = 0))

\* a or b
RateOr(a, b) == IF RateTruthy(a) THEN a ELSE b

\* f"{v}%"
WithPct(v) ==
    IF v.t \in {"num", "numstr"} THEN RateStr(v.n, TRUE)
    ELSE IF v.t = "none" THEN RateText(TRUE)
    ELSE [v EXCEPT !.t = "text", !.pct = TRUE]

\* float(str(v).replace("%", "").strip()): the number, or NoInt for a ValueError
ParseRate(v) == IF v.t \in {"num", "numstr"} THEN Some(v.n) ELSE NoInt

_format_rate(value) ==
    IF value.t = "none" THEN RateNA
    ELSE IF value.t = "num" THEN RateStr(value.n, TRUE)
    ELSE value

(***************************************************************************)
(* Python dicts with string keys: functions on a finite set of keys.       *)
(***************************************************************************)
EmptyDict == [k \in {} |-> NONE]

\* d.get(k)
Get(d, k) == IF k \in DOMAIN d THEN d[k] ELSE NONE

\* d after d.update(e)
Update(d, e) ==
    [k \in DOMAIN d \cup DOMAIN e |-> IF k \in DOMAIN e THEN e[k] ELSE d[k]]

\* {key: value} when value is not None, else {}
IfSet(key, value) == IF value = NONE THEN EmptyDict ELSE [k \in {key} |-> value]

\* s.strip()
Strip(s) == IF s = " " THEN "" ELSE s

\* variant: the second name of a field is never read
StrOr_first_only(a, b) == a

\* a or b for strings
StrOr(a, b) == IF a \notin {NONE, ""} THEN a ELSE b

(***************************************************************************)
(* Profile Merge Engine (agents/recommendations.py)                        *)
(***************************************************************************)
SuitabilityColumns ==
    {"risk_tolerance", "primary_objective", "secondary_objective", "liquidity_importance",
     "investment_horizon", "withdrawal_horizon", "current_income_need", "age", "state"}

GoalsColumns ==
    {"annual_income_range", "net_worth_range", "liquid_net_worth_range", "tax_bracket"}

\* variant: a delta riskTolerance does not replace a baseline value
_merge_suitability_keep_baseline(db_profile, chg) ==
    LET base == IF Len(db_profile) > 0
                THEN [k \in SuitabilityColumns |-> Get(db_profile[1], k)]
                ELSE EmptyDict
        s == chg.suitability
    IN  IF Len(s) = 0 THEN base
        ELSE Update(Update(Update(Update(IfSet("risk_tolerance", s[1].riskTolerance), base),
                    IfSet("time_horizon", s[1].timeHorizon)),
                    IfSet("liquidity_needs", s[1].liquidityNeeds)),
                    IfSet("client_objectives", s[1].clientObjectives))

_merge_suitability(db_profile, chg) ==
    LET base == IF Len(db_profile) > 0
                THEN [k \in SuitabilityColumns |-> Get(db_profile[1], k)]
                ELSE EmptyDict
        s == chg.suitability
    IN  IF Len(s) = 0 THEN base
        ELSE Update(Update(Update(Update(base,
                    IfSet("risk_tolerance", s[1].riskTolerance)),
                    IfSet("time_horizon", s[1].timeHorizon)),
                    IfSet("liquidity_needs", s[1].liquidityNeeds)),
                    IfSet("client_objectives", s[1].clientObjectives))

\* variant: a delta grossIncome is written over annual_income_range
_merge_goals_and_profile_income_range(db_profile, chg) ==
    LET base == IF Len(db_profile) > 0
                THEN [k \in GoalsColumns |-> Get(db_profile[1], k)]
                ELSE EmptyDict
        g == chg.client_goals
        p == chg.client_profile
        withGoals ==
            IF Len(g) = 0 THEN base
            ELSE Update(Update(Update(base,
                        IfSet("financial_objectives", g[1].financialObjectives)),
                        IfSet("distribution_plan", g[1].distributionPlan)),
                        IfSet("expected_holding_period", g[1].expectedHoldingPeriod))
    IN  IF Len(p) = 0 THEN withGoals
        ELSE Update(Update(Update(Update(withGoals,
                    IfSet("annual_income_range", p[1].grossIncome)),
                    IfSet("household_net_worth", p[1].householdNetWorth)),
                    IfSet("household_liquid_assets", p[1].householdLiquidAssets)),
                    IfSet("tax_bracket", p[1].taxBracket))

_merge_goals_and_profile(db_profile, chg) ==
    LET base == IF Len(db_profile) > 0
                THEN [k \in GoalsColumns |-> Get(db_profile[1], k)]
                ELSE EmptyDict
        g == chg.client_goals
        p == chg.client_profile
        withGoals ==
            IF Len(g) = 0 THEN base
            ELSE Update(Update(Update(base,
                        IfSet("financial_objectives", g[1].financialObjectives)),
                        IfSet("distribution_plan", g[1].distributionPlan)),
                        IfSet("expected_holding_period", g[1].expectedHoldingPeriod))
    IN  IF Len(p) = 0 THEN withGoals
        ELSE Update(Update(Update(Update(withGoals,
                    IfSet("gross_income", p[1].grossIncome)),
                    IfSet("household_net_worth", p[1].householdNetWorth)),
                    IfSet("household_liquid_assets", p[1].householdLiquidAssets)),
                    IfSet("tax_bracket", p[1].taxBracket))

(***************************************************************************)
(* Recommendation Synthesizer (agents/recommendations.py)                  *)
(***************************************************************************)
DefaultMaxRecommendations == 10

\* `a in b` for the client identifiers, account numbers and lower-case names of the model
InStr(a, b) ==
    \/ a = ""
    \/ a = b
    \/ <<a, b>> \in {<<"marty", "marty mcfly">>, <<"1001", "ACC-1001">>,
                     <<"mcfly", "marty mcfly">>}

LowerId(s) ==
    CASE s = "Marty" -> "marty"
      [] s = "Marty McFly" -> "marty mcfly"
      [] s = "Jennifer Parker" -> "jennifer parker"
      [] s = "ACC-1001" -> "acc-1001"
      [] s = "ACC-2002" -> "acc-2002"
      [] OTHER -> s

\* the client_row the loop of generate_recommendations resolves, <<>> if none
ResolveClient(clients, cid) ==
    LET matches(c) ==
            LET acct == Strip(OrEmpty(c.client_account_number))
                name == LowerId(OrEmpty(c.client_name))
            IN  acct = cid \/ InStr(LowerId(cid), name) \/ InStr(cid, acct)
        hits == {i \in 1..Len(clients) : matches(clients[i])}
    IN  IF hits # {} THEN <<clients[CHOOSE i \in hits : \A j \in hits : i <= j]>>
        ELSE IF Len(clients) > 0 THEN <<clients[1]>>
        ELSE <<>>

\* db_suit: the profile of the resolved client, else the first profile, else <<>>
ResolveProfile(profiles, client_row) ==
    LET acct == IF Len(client_row) > 0 THEN client_row[1].client_account_number ELSE NONE
        hits == {i \in 1..Len(profiles) : profiles[i].client_account_number = acct}
    IN  IF hits # {} THEN <<profiles[CHOOSE i \in hits : \A j \in hits : i <= j]>>
        ELSE IF Len(profiles) > 0 THEN <<profiles[1]>>
        ELSE <<>>

(***************************************************************************)
(* Product options (agents/sureify_client.py)                              *)
(***************************************************************************)
\* the value of the first attribute named "rate", None when it is falsy
OptionAttrRate(attrs) ==
    LET hits == {i \in 1..Len(attrs) : Lower(OrEmpty(attrs[i].name)) = "rate"}
    IN  IF hits = {} THEN RateNone
        ELSE LET v == attrs[CHOOSE i \in hits : \A j \in hits : i <= j].value
             IN  IF RateTruthy(v) THEN v ELSE RateNone

_product_option_to_canonical(p) ==
    LET rate0 == IF p.rate.t = "none" /\ Len(p.attributes) > 0
                 THEN OptionAttrRate(p.attributes) ELSE p.rate
        rate1 == IF rate0.t = "none" THEN RateNA ELSE rate0
    IN  [product_id |-> StrOr(p.productId, StrOr(p.ID, StrOr(p.productCode, ""))),
         productId |-> NONE, ID |-> NONE, productCode |-> NONE,
         name |-> StrOr(p.name, "Unknown"),
         carrier |-> StrOr(p.carrier, ""),
         rate |-> IF rate1.t = "num" THEN WithPct(rate1) ELSE rate1,
         risk_profile |-> NONE,
         attributes |-> <<>>]

\* get_products: every product option in canonical shape
RECURSIVE get_products(_)
get_products(options) ==
    IF Len(options) = 0 THEN <<>>
    ELSE <<_product_option_to_canonical(Head(options))>> \o get_products(Tail(options))

\* attr_map.get("rate"): the value of the last attribute named "rate"
AttrRate(attrs) ==
    LET hits == {i \in 1..Len(attrs) : Lower(Strip(OrEmpty(attrs[i].name))) = "rate"}
    IN  IF hits = {} THEN RateNone
        ELSE LET v == attrs[CHOOSE i \in hits : \A j \in hits : j <= i].value
             IN  IF RateTruthy(v) THEN v ELSE RateNone

_sureify_product_to_canonical(p) ==
    IF p.product_id \notin {NONE, ""}
    THEN [product_id |-> p.product_id, name |-> p.name, carrier |-> p.carrier,
          rate |-> p.rate, risk_profile |-> p.risk_profile]
    ELSE [product_id |-> StrOr(p.ID, StrOr(p.productCode, "")),
          name |-> StrOr(p.name, "Unknown"),
          carrier |-> StrOr(p.carrier, ""),
          rate |-> RateOr(AttrRate(p.attributes), RateNA),
          risk_profile |-> NONE]

\* the (label, value) reasons of _build_match_reason_from_context; <<>> stands for
\* "Recommended from Sureify product catalog based on profile."
_build_match_reason_from_context(merged_suit, merged_goals) ==
    LET risk == Strip(OrEmpty(Get(merged_suit, "risk_tolerance")))
        th == Strip(OrEmpty(StrOr(Get(merged_suit, "time_horizon"),
                                  Get(merged_suit, "investment_horizon"))))
        liq == Strip(OrEmpty(StrOr(Get(merged_suit, "liquidity_needs"),
                                   Get(merged_suit, "liquidity_importance"))))
        obj == Strip(OrEmpty(StrOr(Get(merged_suit, "client_objectives"),
                                   Get(merged_goals, "financial_objectives"))))
        hold == Strip(OrEmpty(Get(merged_goals, "expected_holding_period")))
    IN  (IF risk # "" THEN <<<<"risk tolerance", risk>>>> ELSE <<>>)
        \o (IF th # "" THEN <<<<"time horizon", th>>>> ELSE <<>>)
        \o (IF liq # "" THEN <<<<"liquidity", liq>>>> ELSE <<>>)
        \o (IF obj # "" THEN <<<<"objectives", obj>>>> ELSE <<>>)
        \o (IF hold # "" THEN <<<<"holding period", hold>>>> ELSE <<>>)

\* the ProductRecommendation of one Sureify product, <<>> when it is skipped
SureifyRecommendation(p, base_reason) ==
    LET canon == _sureify_product_to_canonical(p)
        rate0 == RateOr(canon.rate, RateNA)
        rate_str == IF rate0 # RateNA /\ ~rate0.pct THEN WithPct(rate0) ELSE rate0
    IN  IF canon.product_id \in {NONE, ""} THEN <<>>
        ELSE <<[product_id |-> canon.product_id, name |-> canon.name,
                carrier |-> canon.carrier, rate |-> rate_str,
                guaranteedMinRate |-> RateNone, risk_profile |-> canon.risk_profile,
                match_reason |-> base_reason]>>

\* the ProductRecommendation of one row of the DB products table, <<>> when skipped
DbRecommendation(p, reason) ==
    IF p.product_id \in {NONE, ""} THEN <<>>
    ELSE <<[product_id |-> p.product_id, name |-> p.product_name, carrier |-> p.carrier,
            rate |-> _format_rate(RateOr(p.current_fixed_rate, p.guaranteed_minimum_rate)),
            guaranteedMinRate |-> _format_rate(p.guaranteed_minimum_rate),
            risk_profile |-> p.risk_profile,
            match_reason |-> reason]>>

RECURSIVE FlatMap(_, _, _)
\* the concatenation of F(q[i], arg) over the sequence q
FlatMap(F(_, _), q, arg) ==
    IF Len(q) = 0 THEN <<>> ELSE F(Head(q), arg) \o FlatMap(F, Tail(q), arg)

\* variant: an unparsable rate sorts first
rate_sort_key_high(r) == IF ParseRate(r.rate) = NoInt THEN 100000 ELSE ParseRate(r.rate)[1]

rate_sort_key(r) == IF ParseRate(r.rate) = NoInt THEN 0 ELSE ParseRate(r.rate)[1]

RECURSIVE SortByRate(_)
\* recs.sort(key=rate_sort_key, reverse=True): stable, descending
SortByRate(recs) ==
    IF Len(recs) <= 1 THEN recs
    ELSE LET sorted == SortByRate(SubSeq(recs, 1, Len(recs) - 1))
             x == recs[Len(recs)]
             \* x goes after every element whose key is at least its own
             ahead == {i \in 1..Len(sorted) : rate_sort_key(sorted[i]) >= rate_sort_key(x)}
             k == IF ahead = {} THEN 0 ELSE CHOOSE i \in ahead : \A j \in ahead : j <= i
         IN  SubSeq(sorted, 1, k) \o <<x>> \o SubSeq(sorted, k + 1, Len(sorted))

\* recs[:n]
Take(q, n) == SubSeq(q, 1, IF Len(q) < n THEN Len(q) ELSE n)

(***************************************************************************)
(* Explanation Builder (agents/recommendations.py)                         *)
(***************************************************************************)
SetMin(S) == CHOOSE x \in S : \A y \in S : x <= y
SetMax(S) == CHOOSE x \in S : \A y \in S : y <= x

\* the rates that _build_reasons_to_switch parses out of the recommendations
ParsedRates(recommendations) ==
    {ParseRate(recommendations[i].rate)[1] :
        i \in {j \in 1..Len(recommendations) :
                 /\ recommendations[j].rate.t \notin {"empty", "NA"}
                 /\ ParseRate(recommendations[j].rate) # NoInt}}

Pros ==
    <<"No new paperwork or underwriting",
      "Maintains existing carrier relationship",
      "Surrender period already expired or minimal remaining">>

\* cons entries: the template and the rate it interpolates
\*   rate_drop:       "Significant rate drop to guaranteed minimum {rate}%"
\*   missing_higher:  "Missing opportunity to capture higher market rates ({rate}% available)"
\*   missing_generic: "Missing opportunity to capture higher market rates (check current
\*                     product rates)"
\* variant: the generic string also when there is no recommendation at all
_build_reasons_to_switch_always(recommendations, merged_suit, merged_goals, use_sureify) ==
    LET rates == ParsedRates(recommendations)
    IN  [pros |-> Pros,
         cons |-> IF rates # {}
                  THEN <<[template |-> "rate_drop", rate |-> SetMin(rates)],
                         [template |-> "missing_higher", rate |-> SetMax(rates)]>>
                  ELSE <<[template |-> "missing_generic", rate |-> 0]>>]

_build_reasons_to_switch(recommendations, merged_suit, merged_goals, use_sureify) ==
    LET rates == ParsedRates(recommendations)
    IN  [pros |-> Pros,
         cons |->
            IF rates # {}
            THEN (IF SetMin(rates) < SetMax(rates)
                  THEN <<[template |-> "rate_drop", rate |-> SetMin(rates)]>> ELSE <<>>)
                 \o (IF SetMax(rates) > 0
                     THEN <<[template |-> "missing_higher", rate |-> SetMax(rates)]>>
                     ELSE <<>>)
            ELSE IF Len(recommendations) > 0
            THEN <<[template |-> "missing_generic", rate |-> 0]>>
            ELSE <<>>]

\* variant: only the merged suitability dict is looked at
_build_choice_explanation_suit_only(use_sureify, merged_suit, merged_goals, chg, recommendation_count) ==
    LET sources == <<IF use_sureify THEN "sureify_products" ELSE "db_products">>
                   \o (IF DOMAIN merged_suit # {}
                       THEN <<"db_suitability">> ELSE <<>>)
        nonempty(v) == Strip(OrEmpty(v)) # ""
        c == (IF nonempty(Get(merged_suit, "risk_tolerance"))
              THEN <<"risk tolerance">> ELSE <<>>)
             \o (IF nonempty(StrOr(Get(merged_suit, "time_horizon"),
                                   Get(merged_suit, "investment_horizon")))
                 THEN <<"time horizon">> ELSE <<>>)
             \o (IF nonempty(StrOr(Get(merged_suit, "liquidity_needs"),
                                   Get(merged_suit, "liquidity_importance")))
                 THEN <<"liquidity needs">> ELSE <<>>)
             \o (IF nonempty(StrOr(Get(merged_suit, "client_objectives"),
                                   Get(merged_goals, "financial_objectives")))
                 THEN <<"financial objectives">> ELSE <<>>)
             \o (IF nonempty(Get(merged_goals, "expected_holding_period"))
                 THEN <<"expected holding period">> ELSE <<>>)
        criteria == IF Len(c) = 0 THEN <<"product catalog match">> ELSE c
        input_sections ==
             (IF Len(chg.suitability) > 0 THEN <<"suitability">> ELSE <<>>)
             \o (IF Len(chg.client_goals) > 0 THEN <<"clientGoals">> ELSE <<>>)
             \o (IF Len(chg.client_profile) > 0 THEN <<"clientProfile">> ELSE <<>>)
    IN  [summary |-> [count |-> recommendation_count,
                      catalog |-> IF use_sureify THEN "available product catalog"
                                  ELSE "product catalog",
                      criteria |-> criteria,
                      input_sections |-> input_sections],
         data_sources_used |-> sources,
         choice_criteria |-> criteria,
         input_sections_received |-> input_sections]

_build_choice_explanation(use_sureify, merged_suit, merged_goals, chg, recommendation_count) ==
    LET sources == <<IF use_sureify THEN "sureify_products" ELSE "db_products">>
                   \o (IF DOMAIN merged_suit # {} \/ DOMAIN merged_goals # {}
                       THEN <<"db_suitability">> ELSE <<>>)
        nonempty(v) == Strip(OrEmpty(v)) # ""
        c == (IF nonempty(Get(merged_suit, "risk_tolerance"))
              THEN <<"risk tolerance">> ELSE <<>>)
             \o (IF nonempty(StrOr(Get(merged_suit, "time_horizon"),
                                   Get(merged_suit, "investment_horizon")))
                 THEN <<"time horizon">> ELSE <<>>)
             \o (IF nonempty(StrOr(Get(merged_suit, "liquidity_needs"),
                                   Get(merged_suit, "liquidity_importance")))
                 THEN <<"liquidity needs">> ELSE <<>>)
             \o (IF nonempty(StrOr(Get(merged_suit, "client_objectives"),
                                   Get(merged_goals, "financial_objectives")))
                 THEN <<"financial objectives">> ELSE <<>>)
             \o (IF nonempty(Get(merged_goals, "expected_holding_period"))
                 THEN <<"expected holding period">> ELSE <<>>)
        criteria == IF Len(c) = 0 THEN <<"product catalog match">> ELSE c
        input_sections ==
             (IF Len(chg.suitability) > 0 THEN <<"suitability">> ELSE <<>>)
             \o (IF Len(chg.client_goals) > 0 THEN <<"clientGoals">> ELSE <<>>)
             \o (IF Len(chg.client_profile) > 0 THEN <<"clientProfile">> ELSE <<>>)
    IN  [summary |-> [count |-> recommendation_count,
                      catalog |-> IF use_sureify THEN "available product catalog"
                                  ELSE "product catalog",
                      criteria |-> criteria,
                      input_sections |-> input_sections],
         data_sources_used |-> sources,
         choice_criteria |-> criteria,
         input_sections_received |-> input_sections]

generate_recommendations(cid, ctx, chg, iri_comparison_result, max_n) ==
    LET client_row == ResolveClient(ctx.clients, cid)
        db_suit == ResolveProfile(ctx.client_suitability_profiles, client_row)
        merged_suit == _merge_suitability(db_suit, chg)
        merged_goals == _merge_goals_and_profile(db_suit, chg)
        use_sureify == Len(ctx.sureify_products) > 0
        reason == _build_match_reason_from_context(merged_suit, merged_goals)
        recs == IF use_sureify
                THEN FlatMap(SureifyRecommendation, ctx.sureify_products, reason)
                ELSE FlatMap(DbRecommendation, ctx.products, reason)
        top == Take(SortByRate(recs), max_n)
    IN  [client_id |-> cid,
         merged_profile_summary |->
             [suitability |-> merged_suit, goals_and_profile |-> merged_goals],
         recommendations |-> top,
         explanation |->
             _build_choice_explanation(use_sureify, merged_suit, merged_goals, chg, Len(top)),
         reasons_to_switch |->
             _build_reasons_to_switch(top, merged_suit, merged_goals, use_sureify),
         iri_comparison_result |-> iri_comparison_result]

\* no call of generate_recommendations is under way
NoChanges == [suitability |-> <<>>, client_goals |-> <<>>, client_profile |-> <<>>]
NoContext == [clients |-> <<>>, client_suitability_profiles |-> <<>>,
              products |-> <<>>, sureify_products |-> <<>>]

NoProfileRow == [client_account_number |-> NONE, existing_row |-> <<>>, row |-> <<>>]

RecIdle ==
    /\ client_id = NONE
    /\ db_context = NoContext
    /\ changes = NoChanges
    /\ max_recommendations = 0
    /\ rec_out = <<>>
    /\ tool_calls = <<>>
    /\ product_options = <<>>
    /\ chat_calls = <<>>
    /\ built_row = NoProfileRow
    /\ alerts_table = <<>>

(***************************************************************************)
(* The policies the model runs the Policy Flag Engine on.                  *)
(***************************************************************************)
BasePolicy ==
    [status |-> "Inforce",
     renewalDate |-> NoDate, maturityDate |-> NoDate,
     nextPremiumDueDate |-> NoDate, coveredUntilDate |-> NoDate,
     productName |-> "Variable Growth", productCode |-> NONE,
     productType |-> "Fixed Annuity", payoutSchedule |-> FALSE, cashValue |-> FALSE,
     policyNumber |-> "PN-1", carrier |-> "Acme Life", effectiveDate |-> "2020-01-01",
     ID |-> "POL-1", roles |-> [has_key |-> FALSE, n |-> 0], contacts |-> [n |-> 0]]

RenewalDates == {NoDate, BadDate, OnDay(1), OnDay(31)}

Policies ==
    {[BasePolicy EXCEPT !.status = st, !.renewalDate = rd, !.productName = pn,
                        !.productCode = pc, !.productType = pt, !.payoutSchedule = po,
                        !.policyNumber = num, !.carrier = ca, !.effectiveDate = ed] :
        st \in {"Inforce", "Lapsed", NONE},
        rd \in RenewalDates,
        pn \in {"Fixed Annuity Plus", "Variable Growth", NONE},
        pc \in {"T20", NONE},
        pt \in {"Fixed Annuity", "Whole Life", NONE},
        po \in BOOLEAN,
        num \in {"PN-1", NONE},
        ca \in {"Acme Life", NONE},
        ed \in {"2020-01-01", NONE}}

NoBook == [customer_identifier |-> NONE, policies |-> <<>>]
NoAlerts == [of |-> NoBook, alerts |-> <<>>, stats |-> [total |-> 0, high |-> 0, urgent |-> 0]]

(***************************************************************************)
(* Spec: agent one runs over the policy store while the days pass.         *)
(***************************************************************************)
Init ==
    /\ today = 0
    /\ policies \in {<<p>> : p \in Policies}
    /\ book = NoBook
    /\ first_book = NoBook
    /\ alerts = NoAlerts
    /\ RecIdle

\* agent_one tool get_book_of_business_with_notifications_and_flags.  book is the
\* payload the run returns, persists with persist_agent_one_book_of_business and
\* POSTs to /api/alerts: the three are the same payload_dict.
get_book_of_business_with_notifications_and_flags ==
    /\ book' = BookOf(policies, today)
    /\ first_book' = IF first_book = NoBook THEN book' ELSE first_book
    /\ UNCHANGED <<today, policies, alerts, recVars, toolVars, chatVars, rowVars, apiVars>>

\* agent_one tool get_book_of_business_as_iri_alerts: the tool above, then the mapper
get_book_of_business_as_iri_alerts ==
    /\ book' = BookOf(policies, today)
    /\ first_book' = IF first_book = NoBook THEN book' ELSE first_book
    /\ alerts' = map_book_of_business_to_iri_alerts(book')
    /\ UNCHANGED <<today, policies, recVars, toolVars, chatVars, rowVars, apiVars>>

\* midnight: date.today() moves on
Tick ==
    /\ today < MaxToday
    /\ today' = today + 1
    /\ UNCHANGED <<policies, book, first_book, alerts, recVars, toolVars, chatVars, rowVars, apiVars>>

Next ==
    \/ get_book_of_business_with_notifications_and_flags
    \/ get_book_of_business_as_iri_alerts
    \/ Tick

Spec == Init /\ [][Next]_vars

(***************************************************************************)
(* SpecFlags: the Policy Flag Engine applied once to one policy, drawn     *)
(* from the shapes its four checks tell apart.                             *)
(***************************************************************************)
FlagPolicies ==
    {[BasePolicy EXCEPT !.status = st, !.renewalDate = rd, !.productName = pn,
                        !.productCode = pc, !.productType = pt, !.payoutSchedule = po,
                        !.cashValue = cv, !.policyNumber = num, !.carrier = ca,
                        !.effectiveDate = ed, !.roles = ro] :
        st \in {"Inforce", "INFORCE", "Lapsed", NONE},
        rd \in {NoDate, OnDay(0), OnDay(1), OnDay(30), OnDay(31)},
        pn \in {"Fixed Annuity Plus", "Level Term 20", "Variable Growth", NONE},
        pc \in {"T20", NONE},
        pt \in {"Fixed Annuity", "Whole Life", NONE},
        po \in BOOLEAN,
        cv \in BOOLEAN,
        num \in {"PN-1", NONE},
        ca \in {"Acme Life", NONE},
        ed \in {"2020-01-01", NONE},
        ro \in {[has_key |-> FALSE, n |-> 0], [has_key |-> TRUE, n |-> 0],
                [has_key |-> TRUE, n |-> 1]}}

InitFlags ==
    /\ today = 0
    /\ policies \in {<<p>> : p \in FlagPolicies}
    /\ book = NoBook
    /\ first_book = NoBook
    /\ alerts = NoAlerts
    /\ RecIdle

\* apply_business_logic on each policy of the store, as the agent-one loop calls it
ApplyBusinessLogic ==
    /\ book' = BookOf(policies, today)
    /\ UNCHANGED <<today, policies, first_book, alerts, recVars, toolVars, chatVars, rowVars, apiVars>>

NextFlags == ApplyBusinessLogic

SpecFlags == InitFlags /\ [][NextFlags]_vars

(***************************************************************************)
(* SpecRenewal: the Policy Flag Engine on policies whose four date fields  *)
(* are absent, unparsable, past, today or ahead.                           *)
(***************************************************************************)
RawDates == {NoDate, BadDate, OnDay(-1), OnDay(0), OnDay(5), OnDayDmy(5)}

RenewalPolicies ==
    {[BasePolicy EXCEPT !.renewalDate = a, !.maturityDate = b,
                        !.nextPremiumDueDate = c, !.coveredUntilDate = d] :
        a \in RawDates, b \in RawDates, c \in RawDates, d \in RawDates}

InitRenewal ==
    /\ today = 0
    /\ policies \in {<<p>> : p \in RenewalPolicies}
    /\ book = NoBook
    /\ first_book = NoBook
    /\ alerts = NoAlerts
    /\ RecIdle

SpecRenewal == InitRenewal /\ [][NextFlags]_vars

(***************************************************************************)
(* SpecAlerts: the Alert Mapper on any book a caller hands it.             *)
(***************************************************************************)
MaxBook == 2

FourIssues ==
    <<"Missing policy number", "Missing carrier", "Missing effective date",
      "Missing roles/contacts">>

UrgentNotification == [notification_type |-> "lapse_risk", severity |-> "urgent"]

\* PolicyOutput records with every combination of the four flags, of severity and
\* notifications, and of a renewal that is unknown, 30 or 31 days away
PolicyOutputs ==
    {[policy |-> BasePolicy,
      notifications |-> nt,
      replacement_opportunity |-> r,
      replacement_reason |-> IF r THEN MaturingReason ELSE NONE,
      data_quality_issues |-> dq,
      data_quality_severity |-> sv,
      income_activation_eligible |-> inc,
      income_activation_reason |-> NONE,
      schedule_meeting |-> m,
      schedule_meeting_reason |-> IF m /\ r THEN "Replacement opportunity" ELSE NONE,
      renewal_date |-> [kind |-> "none", day |-> 0],
      days_until_renewal |-> du] :
        r \in BOOLEAN,
        dq \in {<<>>, <<"Missing carrier">>, FourIssues},
        inc \in BOOLEAN,
        m \in BOOLEAN,
        sv \in {NONE, "medium", "high"},
        nt \in {<<>>, <<RenewalNotification>>, <<RenewalNotification, UrgentNotification>>},
        du \in {NoInt, Some(30), Some(31)}}

\* the PolicyOutput records that can stand at position i of the book: every
\* combination for the first policy; for the policies after it, no flag or a
\* replacement with its meeting, no data-quality issue, no notification, and a
\* renewal unknown or 31 days away
PolicyOutputsAt(i) ==
    IF i = 1 THEN PolicyOutputs
    ELSE {po \in PolicyOutputs :
             /\ po.data_quality_issues = <<>>
             /\ po.data_quality_severity = NONE
             /\ po.notifications = <<>>
             /\ ~po.income_activation_eligible
             /\ po.schedule_meeting = po.replacement_opportunity
             /\ po.days_until_renewal \in {NoInt, Some(31)}}

RECURSIVE BooksOfLen(_)
BooksOfLen(n) ==
    IF n = 0 THEN {<<>>}
    ELSE {Append(q, x) : q \in BooksOfLen(n - 1), x \in PolicyOutputsAt(n)}

Books == UNION {BooksOfLen(n) : n \in 0..MaxBook}

InitAlerts ==
    /\ today = 0
    /\ policies = <<>>
    /\ book \in {[customer_identifier |-> "Marty McFly", policies |-> q] :
                    q \in Books}
    /\ first_book = NoBook
    /\ alerts = NoAlerts
    /\ RecIdle

\* a caller maps the book it holds
MapBook ==
    /\ alerts' = map_book_of_business_to_iri_alerts(book)
    /\ UNCHANGED <<today, policies, book, first_book, recVars, toolVars, chatVars, rowVars, apiVars>>

NextAlerts == MapBook

SpecAlerts == InitAlerts /\ [][NextAlerts]_vars

(***************************************************************************)
(* The inputs the model runs generate_recommendations on.                  *)
(***************************************************************************)
MaxCatalog == 3

PosId(i) == "P" \o ToString(i)

CanonicalProduct(id, rate) ==
    [product_id |-> id, ID |-> NONE, productCode |-> NONE, name |-> "MYGA 5",
     carrier |-> "Acme Life", rate |-> rate, risk_profile |-> "Conservative",
     attributes |-> <<>>]

LegacyProduct(id, code, attrs) ==
    [product_id |-> NONE, ID |-> id, productCode |-> code, name |-> NONE,
     carrier |-> NONE, rate |-> RateNone, risk_profile |-> NONE, attributes |-> attrs]

\* the Sureify products that can stand at position i of the catalog
SureifyProductsAt(i) ==
    {CanonicalProduct(PosId(i), r) :
        r \in {RateStr(425, TRUE), RateStr(200, TRUE), RateStr(425, FALSE),
               RateStr(0, TRUE), RateNA}}
    \cup {LegacyProduct(PosId(i), NONE, <<[name |-> "Rate", value |-> RateNum(350)]>>),
          LegacyProduct(NONE, NONE, <<[name |-> "Rate", value |-> RateStr(500, TRUE)]>>)}

DbProduct(id, fixed, minimum) ==
    [product_id |-> id, product_name |-> "Fixed Index 7", carrier |-> "Acme Life",
     current_fixed_rate |-> fixed, guaranteed_minimum_rate |-> minimum,
     risk_profile |-> "Moderate"]

\* the rows of the products table that can stand at position i
DbProductsAt(i) ==
    {DbProduct(PosId(i), RateNum(425), RateNum(100)),
     DbProduct(PosId(i), RateNum(200), RateNum(100)),
     DbProduct(PosId(i), RateNone, RateNum(100)),
     DbProduct(PosId(i), RateNone, RateNone),
     DbProduct(NONE, RateNum(500), RateNum(100))}

RECURSIVE CatalogsOfLen(_, _)
CatalogsOfLen(At(_), n) ==
    IF n = 0 THEN {<<>>}
    ELSE {Append(q, x) : q \in CatalogsOfLen(At, n - 1), x \in At(n)}

Catalogs(At(_)) == UNION {CatalogsOfLen(At, n) : n \in 0..MaxCatalog}

(***************************************************************************)
(* SpecRank: generate_recommendations over product catalogs.               *)
(***************************************************************************)
InitRank ==
    /\ today = 0 /\ policies = <<>> /\ book = NoBook /\ first_book = NoBook
    /\ alerts = NoAlerts
    /\ client_id = "1001"
    /\ changes = NoChanges
    /\ max_recommendations \in {1, 2, DefaultMaxRecommendations}
    /\ \E sp \in Catalogs(SureifyProductsAt), dp \in Catalogs(DbProductsAt) :
          /\ sp = <<>> \/ Len(dp) <= 1
          /\ db_context = [NoContext EXCEPT !.sureify_products = sp, !.products = dp]
    /\ rec_out = <<>>
    /\ tool_calls = <<>>
    /\ product_options = <<>>
    /\ chat_calls = <<>>
    /\ built_row = NoProfileRow
    /\ alerts_table = <<>>

\* a caller runs generate_recommendations on the inputs it holds
GenerateRecommendations ==
    /\ rec_out' = <<generate_recommendations(client_id, db_context, changes, <<>>,
                                             max_recommendations)>>
    /\ UNCHANGED <<flagVars, client_id, db_context, changes, max_recommendations, toolVars, chatVars, rowVars, apiVars>>

NextRec == GenerateRecommendations

SpecRank == InitRank /\ [][NextRec]_vars

(***************************************************************************)
(* SpecMerge: generate_recommendations over baselines and deltas.          *)
(***************************************************************************)
Opt(v) == {NONE, v}

SuitabilitySections ==
    {<<>>} \cup
    {<<[riskTolerance |-> a, timeHorizon |-> b, liquidityNeeds |-> c,
        clientObjectives |-> d, taxConsiderations |-> e]>> :
        a \in Opt("Aggressive"), b \in Opt("5-10 years"), c \in Opt("Low"),
        d \in Opt("Income"), e \in Opt("Tax-deferred")}

GoalsSections ==
    {<<>>} \cup
    {<<[financialObjectives |-> a, distributionPlan |-> b, expectedHoldingPeriod |-> c,
        ownedAssets |-> d]>> :
        a \in Opt("Growth"), b \in Opt("Lump sum"), c \in Opt("7 years"),
        d \in Opt("IRA")}

ProfileSections ==
    {<<>>} \cup
    {<<[grossIncome |-> a, householdNetWorth |-> b, householdLiquidAssets |-> c,
        taxBracket |-> d, disposableIncome |-> e]>> :
        a \in Opt("100k"), b \in Opt("1M"), c \in Opt("250k"), d \in Opt("24%"),
        e \in Opt("40k")}

ProfileRow(acct, risk, horizon, liquidity, bracket) ==
    [client_account_number |-> acct,
     risk_tolerance |-> risk, primary_objective |-> "Retirement income",
     secondary_objective |-> NONE, liquidity_importance |-> liquidity,
     investment_horizon |-> horizon, withdrawal_horizon |-> NONE,
     current_income_need |-> NONE, age |-> "62", state |-> "IA",
     annual_income_range |-> "50k-100k", net_worth_range |-> NONE,
     liquid_net_worth_range |-> NONE, tax_bracket |-> bracket]

Baselines ==
    {<<>>} \cup
    {<<ProfileRow("ACC-1001", r, h, "High", t)>> :
        r \in {NONE, "Conservative", "Aggressive"}, h \in Opt("10+ years"), t \in Opt("22%")}

MartyRow == [client_account_number |-> "ACC-1001", client_name |-> "Marty McFly"]

InitMerge ==
    /\ today = 0 /\ policies = <<>> /\ book = NoBook /\ first_book = NoBook
    /\ alerts = NoAlerts
    /\ client_id = "1001"
    /\ changes \in [suitability : SuitabilitySections, client_goals : GoalsSections,
                    client_profile : ProfileSections]
    /\ max_recommendations = DefaultMaxRecommendations
    /\ \E b \in Baselines :
          db_context = [NoContext EXCEPT
                            !.clients = <<MartyRow>>,
                            !.client_suitability_profiles = b,
                            !.products = <<DbProduct("P1", RateNum(425), RateNum(100))>>]
    /\ rec_out = <<>>
    /\ tool_calls = <<>>
    /\ product_options = <<>>
    /\ chat_calls = <<>>
    /\ built_row = NoProfileRow
    /\ alerts_table = <<>>

SpecMerge == InitMerge /\ [][NextRec]_vars

(***************************************************************************)
(* SpecSources: generate_recommendations over present and absent catalogs, *)
(* baselines and delta sections.                                           *)
(***************************************************************************)
SourceChanges ==
    [suitability :
         {<<>>,
          <<[riskTolerance |-> NONE, timeHorizon |-> NONE, liquidityNeeds |-> NONE,
             clientObjectives |-> NONE, taxConsiderations |-> NONE]>>,
          <<[riskTolerance |-> NONE, timeHorizon |-> NONE, liquidityNeeds |-> NONE,
             clientObjectives |-> NONE, taxConsiderations |-> "Tax-deferred"]>>,
          <<[riskTolerance |-> "Aggressive", timeHorizon |-> NONE, liquidityNeeds |-> NONE,
             clientObjectives |-> NONE, taxConsiderations |-> NONE]>>},
     client_goals :
         {<<>>,
          <<[financialObjectives |-> "Growth", distributionPlan |-> NONE,
             expectedHoldingPeriod |-> NONE, ownedAssets |-> NONE]>>},
     client_profile :
         {<<>>,
          <<[grossIncome |-> NONE, householdNetWorth |-> NONE,
             householdLiquidAssets |-> NONE, taxBracket |-> NONE,
             disposableIncome |-> "40k"]>>}]

InitSources ==
    /\ today = 0 /\ policies = <<>> /\ book = NoBook /\ first_book = NoBook
    /\ alerts = NoAlerts
    /\ client_id = "1001"
    /\ changes \in SourceChanges
    /\ max_recommendations = DefaultMaxRecommendations
    /\ \E sp \in {<<>>, <<CanonicalProduct("P1", RateStr(425, TRUE))>>,
                    <<LegacyProduct(NONE, NONE, <<>>)>>},
          dp \in {<<>>, <<DbProduct("D1", RateNum(500), RateNum(100))>>},
          b \in {<<>>, <<ProfileRow("ACC-1001", "Conservative", "10+ years", "High", "22%")>>} :
          db_context = [NoContext EXCEPT
                            !.clients = <<MartyRow>>,
                            !.client_suitability_profiles = b,
                            !.products = dp,
                            !.sureify_products = sp]
    /\ rec_out = <<>>
    /\ tool_calls = <<>>
    /\ product_options = <<>>
    /\ chat_calls = <<>>
    /\ built_row = NoProfileRow
    /\ alerts_table = <<>>

SpecSources == InitSources /\ [][NextRec]_vars

(***************************************************************************)
(* SpecCriteria: generate_recommendations over deltas and baselines whose  *)
(* criteria fields are absent, blank or filled.                            *)
(***************************************************************************)
CriteriaChanges ==
    [suitability :
         {<<>>} \cup
         {<<[riskTolerance |-> a, timeHorizon |-> b, liquidityNeeds |-> c,
             clientObjectives |-> d, taxConsiderations |-> NONE]>> :
             a \in {NONE, " ", "Aggressive"}, b \in {NONE, "", "5-10 years"},
             c \in Opt("Low"), d \in Opt("Income")},
     client_goals :
         {<<>>} \cup
         {<<[financialObjectives |-> a, distributionPlan |-> NONE,
             expectedHoldingPeriod |-> c, ownedAssets |-> NONE]>> :
             a \in Opt("Growth"), c \in {NONE, " ", "7 years"}},
     client_profile : {<<>>}]

CriteriaBaselines ==
    {<<>>} \cup
    {<<ProfileRow("ACC-1001", r, h, l, NONE)>> :
        r \in Opt("Conservative"), h \in Opt("10+ years"), l \in Opt("High")}

InitCriteria ==
    /\ today = 0 /\ policies = <<>> /\ book = NoBook /\ first_book = NoBook
    /\ alerts = NoAlerts
    /\ client_id = "1001"
    /\ changes \in CriteriaChanges
    /\ max_recommendations = DefaultMaxRecommendations
    /\ \E b \in CriteriaBaselines :
          db_context = [NoContext EXCEPT
                            !.clients = <<MartyRow>>,
                            !.client_suitability_profiles = b,
                            !.products = <<DbProduct("P1", RateNum(425), RateNum(100))>>]
    /\ rec_out = <<>>
    /\ tool_calls = <<>>
    /\ product_options = <<>>
    /\ chat_calls = <<>>
    /\ built_row = NoProfileRow
    /\ alerts_table = <<>>

SpecCriteria == InitCriteria /\ [][NextRec]_vars

(***************************************************************************)
(* The tool generate_product_recommendations: JSON input and validation    *)
(* (agent_two/main.py, agents/agent_two.py, agents/agent_two_schemas.py)   *)
(***************************************************************************)
MaxCalls == 2

\* JSON values: a type and, for an object, its members
JScalar(t) == [type |-> t, members |-> EmptyDict]
JObject(m) == [type |-> "object", members |-> m]
Member(k, v) == [x \in {k} |-> v]

\* json.loads on the texts of the model: <<value>>, or <<>> for JSONDecodeError
json_loads(text) ==
    CASE text = "null" -> <<JScalar("null")>>
      [] text = "[]" -> <<JScalar("array")>>
      [] text = "\"high\"" -> <<JScalar("string")>>
      [] text = "{}" -> <<JObject(EmptyDict)>>
      [] text = "{\"suitability\": \"high\"}" ->
            <<JObject(Member("suitability", JScalar("string")))>>
      [] text = "{\"suitability\": {\"riskTolerance\": \"Aggressive\"}}" ->
            <<JObject(Member("suitability",
                             JObject(Member("riskTolerance", "Aggressive"))))>>
      [] text = "{\"clientGoals\": {\"financialObjectives\": \"Growth\"}, \"clientProfile\": {\"taxBracket\": \"24%\"}}" ->
            <<JObject(Update(Member("clientGoals",
                                    JObject(Member("financialObjectives", "Growth"))),
                             Member("clientProfile",
                                    JObject(Member("taxBracket", "24%")))))>>
      [] OTHER -> <<>>

\* bool(v) of a JSON value
Truthy(v) ==
    \/ v.type = "object" /\ DOMAIN v.members # {}
    \/ v.type \in {"string", "number"}

\* input_summary["sections_present"]
sections_present(payload) ==
    SelectSeq(<<"suitability", "clientGoals", "clientProfile", "customerSelection">>,
              LAMBDA k : k \in DOMAIN payload.members /\ Truthy(payload.members[k]))

\* the fields of the three sections the model carries: the fields the merge reads, and
\* one of the fields it does not read for each section
SuitabilityFields ==
    {"riskTolerance", "timeHorizon", "liquidityNeeds", "clientObjectives",
     "taxConsiderations"}
GoalsFields ==
    {"financialObjectives", "distributionPlan", "expectedHoldingPeriod", "ownedAssets"}
ProfileFields ==
    {"grossIncome", "householdNetWorth", "householdLiquidAssets", "taxBracket",
     "disposableIncome"}

\* one optional section of ProfileChangesInput: absent and null give None
SectionOf(payload, k, fields) ==
    IF k \in DOMAIN payload.members /\ payload.members[k].type = "object"
    THEN <<[f \in fields |-> Get(payload.members[k].members, f)]>>
    ELSE <<>>

\* ProfileChangesInput.model_validate: <<changes>>, or <<>> for a ValidationError
model_validate(payload) ==
    IF \/ payload.type # "object"
       \/ \E k \in {"suitability", "clientGoals", "clientProfile"} :
             k \in DOMAIN payload.members
             /\ payload.members[k].type \notin {"object", "null"}
    THEN <<>>
    ELSE <<[suitability |-> SectionOf(payload, "suitability", SuitabilityFields),
            client_goals |-> SectionOf(payload, "clientGoals", GoalsFields),
            client_profile |-> SectionOf(payload, "clientProfile", ProfileFields)]>>

(***************************************************************************)
(* Profile persistence (agents/audit_writer.py) and the IRI API client     *)
(* (agents/iri_client 2.py)                                                *)
(***************************************************************************)
\* the columns of _PROFILE_COLUMNS the model carries, the key aside
ProfileColumns == SuitabilityColumns \cup GoalsColumns

\* variant: a value of the existing row is kept over the delta's
build_profile_row_from_changes_existing_wins(client_account_number, chg, existing_row) ==
    LET key == Member("client_account_number", client_account_number)
        kept == IF Len(existing_row) > 0
                THEN [c \in {x \in ProfileColumns : Get(existing_row[1], x) # NONE} |->
                         existing_row[1][c]]
                ELSE EmptyDict
        s == chg.suitability
        p == chg.client_profile
        withSuit ==
            IF Len(s) = 0 THEN key
            ELSE Update(Update(Update(Update(key,
                        IfSet("risk_tolerance", s[1].riskTolerance)),
                        IfSet("investment_horizon", s[1].timeHorizon)),
                        IfSet("liquidity_importance", s[1].liquidityNeeds)),
                        IfSet("primary_objective", s[1].clientObjectives))
        withProfile ==
            IF Len(p) = 0 THEN withSuit
            ELSE Update(Update(Update(Update(withSuit,
                        IfSet("tax_bracket", p[1].taxBracket)),
                        IfSet("net_worth_range", p[1].householdNetWorth)),
                        IfSet("liquid_net_worth_range", p[1].householdLiquidAssets)),
                        IfSet("annual_income_range", p[1].grossIncome))
    IN  Update(withProfile, kept)

build_profile_row_from_changes(client_account_number, chg, existing_row) ==
    LET key == Member("client_account_number", client_account_number)
        kept == IF Len(existing_row) > 0
                THEN [c \in {x \in ProfileColumns : Get(existing_row[1], x) # NONE} |->
                         existing_row[1][c]]
                ELSE EmptyDict
        s == chg.suitability
        p == chg.client_profile
        withSuit ==
            IF Len(s) = 0 THEN Update(key, kept)
            ELSE Update(Update(Update(Update(Update(key, kept),
                        IfSet("risk_tolerance", s[1].riskTolerance)),
                        IfSet("investment_horizon", s[1].timeHorizon)),
                        IfSet("liquidity_importance", s[1].liquidityNeeds)),
                        IfSet("primary_objective", s[1].clientObjectives))
    IN  IF Len(p) = 0 THEN withSuit
        ELSE Update(Update(Update(Update(withSuit,
                    IfSet("tax_bracket", p[1].taxBracket)),
                    IfSet("net_worth_range", p[1].householdNetWorth)),
                    IfSet("liquid_net_worth_range", p[1].householdLiquidAssets)),
                    IfSet("annual_income_range", p[1].grossIncome))

\* the table client_suitability_profiles after INSERT ... ON CONFLICT DO UPDATE
upsert_client_suitability_profile(profiles, client_account_number, profile_dict) ==
    LET hits == {i \in 1..Len(profiles) :
                    profiles[i].client_account_number = client_account_number}
        written(old) ==
            [c \in ProfileColumns \cup {"client_account_number"} |->
                IF c \in DOMAIN profile_dict THEN profile_dict[c] ELSE Get(old, c)]
    IN  IF hits = {} THEN Append(profiles, written(EmptyDict))
        ELSE [i \in 1..Len(profiles) |->
                 IF i \in hits THEN written(profiles[i]) ELSE profiles[i]]

\* the profile upsert of the handler: the table after it and whether it wrote
PersistProfile(ctx, cid, chg) ==
    LET clients == ctx.clients
        profiles == ctx.client_suitability_profiles
        matches(c) ==
            LET acct == Strip(OrEmpty(c.client_account_number))
                name == LowerId(OrEmpty(c.client_name))
            IN  acct = cid \/ (cid # "" /\ (InStr(LowerId(cid), name) \/ InStr(cid, acct)))
        hits == {i \in 1..Len(clients) : matches(clients[i])}
        client_row == IF hits # {} THEN <<clients[CHOOSE i \in hits : \A j \in hits : i <= j]>>
                      ELSE IF Len(clients) > 0 THEN <<clients[1]>>
                      ELSE <<>>
        acct == IF Len(client_row) > 0 THEN client_row[1].client_account_number ELSE NONE
        found == {i \in 1..Len(profiles) : profiles[i].client_account_number = acct}
        existing == IF found # {}
                    THEN <<profiles[CHOOSE i \in found : \A j \in found : i <= j]>>
                    ELSE <<>>
        profile_row == build_profile_row_from_changes(acct, chg, existing)
        writes == /\ Len(chg.client_profile) > 0 \/ Len(chg.suitability) > 0
                  /\ acct \notin {NONE, ""}
                  /\ Cardinality(DOMAIN profile_row) > 1
    IN  [wrote |-> writes,
         profiles |-> IF writes
                      THEN upsert_client_suitability_profile(profiles, acct, profile_row)
                      ELSE profiles]

\* _request against a remote that answers, or that cannot be reached
_request(remote) ==
    IF remote = "ok" THEN [error |-> NONE, message |-> NONE]
    ELSE [error |-> "IRI_REQUEST_ERROR", message |-> remote]

run_iri_comparison(remote) == _request(remote)

\* the IRI block of the handler: the calls it makes and iri_result
IriStep(chg, alert_id, env) ==
    IF alert_id # "" /\ env.iri_base_url
    THEN [effects |-> (IF Len(chg.client_profile) > 0
                       THEN <<"save_iri_client_profile">> ELSE <<>>)
                      \o (IF Len(chg.suitability) > 0
                          THEN <<"save_iri_suitability">> ELSE <<>>)
                      \o <<"run_iri_comparison">>,
          iri_result |-> <<run_iri_comparison(env.iri_remote)>>]
    ELSE [effects |-> <<>>, iri_result |-> <<>>]

(***************************************************************************)
(* The handlers: what one invocation does, and what it leaves behind.      *)
(***************************************************************************)
AgentRunEvent(input_summary, success, error_message, input_validation_passed, payload_ref) ==
    [input_summary |-> input_summary, success |-> success,
     error_message |-> error_message,
     input_validation_passed |-> input_validation_passed, payload_ref |-> payload_ref]

\* the outcome of an invocation: a JSON error object, an exception that reaches the
\* caller, or the ProductRecommendationsOutput
ErrorResult(error) == [kind |-> "error", error |-> error, out |-> <<>>]
Raised(exception) == [kind |-> "raised", error |-> exception, out |-> <<>>]
OutputResult(out) == [kind |-> "output", error |-> NONE, out |-> <<out>>]

Outcome(effects, events, computed, result, profiles) ==
    [effects |-> effects, events |-> events, computed |-> computed, result |-> result,
     profiles |-> profiles]

\* agent_two/main.py generate_product_recommendations.  The electronic application
\* payload and the best-interest summary it attaches to the output are not modelled.
RunTool(changes_json, cid, alert_id, env, ctx) ==
    LET table == ctx.client_suitability_profiles
        loaded == json_loads(changes_json)
    IN  IF Len(loaded) = 0
        THEN Outcome(<<"persist_event">>,
                     <<AgentRunEvent(<<>>, FALSE, "JSONDecodeError", <<FALSE>>, NONE)>>,
                     FALSE, ErrorResult("Invalid JSON"), table)
        ELSE IF loaded[1].type # "object"
        THEN \* payload.get(k) on a value that is not a dict
             Outcome(<<>>, <<>>, FALSE, Raised("AttributeError"), table)
        ELSE
        LET input_summary == sections_present(loaded[1])
            validated == model_validate(loaded[1])
        IN  IF Len(validated) = 0
            THEN Outcome(<<"persist_event">>,
                         <<AgentRunEvent(input_summary, FALSE, "ValidationError",
                                         <<FALSE>>, NONE)>>,
                         FALSE, ErrorResult("Invalid changes shape"), table)
            ELSE IF ~env.api_up
            THEN \* _get_sureify_context: _api_get raises
                 Outcome(<<"fetch_db_context", "_api_get">>, <<>>, FALSE,
                         Raised("HTTPError"), table)
            ELSE
            LET chg == validated[1]
                persisted == PersistProfile(ctx, cid, chg)
                iri == IriStep(chg, alert_id, env)
                out == generate_recommendations(cid, ctx, chg, iri.iri_result,
                                                DefaultMaxRecommendations)
            IN  Outcome(<<"fetch_db_context", "_api_get">>
                        \o (IF persisted.wrote
                            THEN <<"upsert_client_suitability_profile">> ELSE <<>>)
                        \o iri.effects
                        \o <<"persist_agent_two_payload", "persist_event">>,
                        <<AgentRunEvent(input_summary, TRUE, NONE, <<TRUE>>, "row")>>,
                        TRUE, OutputResult(out), persisted.profiles)

\* agents/agent_two.py generate_product_recommendations, the handler without audit
RunLegacyTool(changes_json, cid, alert_id, env, ctx) ==
    LET table == ctx.client_suitability_profiles
        loaded == json_loads(changes_json)
        validated == IF Len(loaded) = 0 THEN <<>> ELSE model_validate(loaded[1])
    IN  IF Len(loaded) = 0
        THEN Outcome(<<>>, <<>>, FALSE, ErrorResult("Invalid JSON"), table)
        ELSE IF Len(validated) = 0
        THEN Outcome(<<>>, <<>>, FALSE, ErrorResult("Invalid changes shape"), table)
        ELSE IF ~env.api_up
        THEN Outcome(<<"fetch_db_context", "_api_get">>, <<>>, FALSE,
                     Raised("HTTPError"), table)
        ELSE
        LET chg == validated[1]
            iri == IriStep(chg, alert_id, env)
            out == generate_recommendations(cid, ctx, chg, iri.iri_result,
                                            DefaultMaxRecommendations)
        IN  Outcome(<<"fetch_db_context", "_api_get">> \o iri.effects, <<>>, TRUE,
                    OutputResult(out), table)

(***************************************************************************)
(* SpecTool: a front end calls the tool against a database, the API server *)
(* and the IRI API.                                                        *)
(***************************************************************************)
ChangesTexts ==
    {"{oops", "null", "[]", "\"high\"", "{}",
     "{\"suitability\": \"high\"}",
     "{\"suitability\": {\"riskTolerance\": \"Aggressive\"}}",
     "{\"clientGoals\": {\"financialObjectives\": \"Growth\"}, \"clientProfile\": {\"taxBracket\": \"24%\"}}"}

AlertIds == {"", "alert-1"}

\* what a call can find: the API server up or down, IRI_API_BASE_URL set or not, the
\* IRI API answering or out of reach
Environments ==
    [api_up : BOOLEAN, iri_base_url : BOOLEAN, iri_remote : {"ok", "unreachable"}]

\* the part of the environment the call gets to see; the rest is left at its default
Observed(env, changes_json, alert_id) ==
    LET loaded == json_loads(changes_json)
        fetches == Len(loaded) > 0 /\ Len(model_validate(loaded[1])) > 0
        api_up == ~fetches \/ env.api_up
        base == fetches /\ api_up /\ alert_id # "" /\ env.iri_base_url
    IN  [api_up |-> api_up, iri_base_url |-> base,
         iri_remote |-> IF base THEN env.iri_remote ELSE "ok"]

ToolCall(handler, changes_json, cid, alert_id, env, outcome) ==
    [handler |-> handler, changes_json |-> changes_json, client_id |-> cid,
     alert_id |-> alert_id, env |-> env, effects |-> outcome.effects,
     events |-> outcome.events, computed |-> outcome.computed, result |-> outcome.result]

InitTool ==
    /\ today = 0 /\ policies = <<>> /\ book = NoBook /\ first_book = NoBook
    /\ alerts = NoAlerts
    /\ client_id = "1001"
    /\ changes = NoChanges
    /\ max_recommendations = DefaultMaxRecommendations
    /\ \E b \in {<<>>, <<ProfileRow("ACC-1001", "Conservative", "10+ years", "High", "22%")>>} :
          db_context = [NoContext EXCEPT
                            !.clients = <<MartyRow>>,
                            !.client_suitability_profiles = b,
                            !.sureify_products =
                                <<CanonicalProduct("P1", RateStr(425, TRUE)),
                                  CanonicalProduct("P2", RateStr(200, TRUE))>>]
    /\ rec_out = <<>>
    /\ tool_calls = <<>>
    /\ product_options = <<>>
    /\ chat_calls = <<>>
    /\ built_row = NoProfileRow
    /\ alerts_table = <<>>

\* the tool of agent_two/main.py
generate_product_recommendations ==
    /\ Len(tool_calls) < MaxCalls
    /\ \E changes_json \in ChangesTexts, alert_id \in AlertIds, env \in Environments :
          /\ env = Observed(env, changes_json, alert_id)
          /\ LET outcome == RunTool(changes_json, client_id, alert_id, env, db_context)
             IN  /\ tool_calls' = Append(tool_calls,
                        ToolCall("agent_two/main.py", changes_json, client_id, alert_id,
                                 env, outcome))
                 /\ db_context' = [db_context EXCEPT
                                      !.client_suitability_profiles = outcome.profiles]
                 /\ rec_out' = outcome.result.out
    /\ UNCHANGED <<flagVars, client_id, changes, max_recommendations, product_options, chatVars, rowVars, apiVars>>

\* the tool of agents/agent_two.py
generate_product_recommendations_legacy ==
    /\ Len(tool_calls) < MaxCalls
    /\ \E changes_json \in ChangesTexts, alert_id \in AlertIds, env \in Environments :
          /\ env = Observed(env, changes_json, alert_id)
          /\ LET outcome == RunLegacyTool(changes_json, client_id, alert_id, env, db_context)
             IN  /\ tool_calls' = Append(tool_calls,
                        ToolCall("agent_two.py", changes_json, client_id, alert_id,
                                 env, outcome))
                 /\ rec_out' = outcome.result.out
    /\ UNCHANGED <<flagVars, client_id, db_context, changes, max_recommendations,
                   product_options, chatVars, rowVars, apiVars>>

NextTool ==
    \/ generate_product_recommendations
    \/ generate_product_recommendations_legacy

SpecTool == InitTool /\ [][NextTool]_vars

(***************************************************************************)
(* SpecCatalog: the two handlers of the tool over the product options the  *)
(* Puddle Data API serves.  agent_two/main.py reads them through the API   *)
(* server, agents/agent_two.py through sureify_client.get_products.        *)
(***************************************************************************)
ProductOption(productId, id, code, rate, attrs) ==
    [product_id |-> NONE, productId |-> productId, ID |-> id, productCode |-> code,
     name |-> "Flex MYGA", carrier |-> "Athene", rate |-> rate, risk_profile |-> NONE,
     attributes |-> attrs]

\* the product options that can stand at position i
ProductOptionsAt(i) ==
    LET n == ToString(i)
    IN  {ProductOption("P" \o n, NONE, NONE, RateStr(425, TRUE), <<>>),
         ProductOption("P" \o n, "X" \o n, NONE, RateStr(425, FALSE), <<>>),
         ProductOption(NONE, "X" \o n, NONE, RateNum(350), <<>>),
         ProductOption(NONE, "X" \o n, "C" \o n, RateNone, <<>>),
         ProductOption(NONE, NONE, "C" \o n, RateNone,
                       <<[name |-> "Rate", value |-> RateStr(500, TRUE)]>>),
         ProductOption(NONE, NONE, NONE, RateNum(350), <<>>)}

CatalogChangesTexts == {"{}", "{\"suitability\": {\"riskTolerance\": \"Aggressive\"}}"}

InitCatalog ==
    /\ today = 0 /\ policies = <<>> /\ book = NoBook /\ first_book = NoBook
    /\ alerts = NoAlerts
    /\ client_id = "1001"
    /\ changes = NoChanges
    /\ max_recommendations = DefaultMaxRecommendations
    /\ db_context = [NoContext EXCEPT !.clients = <<MartyRow>>]
    /\ rec_out = <<>>
    /\ tool_calls = <<>>
    /\ product_options \in
           {<<a>> : a \in ProductOptionsAt(1)}
           \cup {<<a, b>> : a \in ProductOptionsAt(1), b \in ProductOptionsAt(2)}
    /\ chat_calls = <<>>
    /\ built_row = NoProfileRow
    /\ alerts_table = <<>>

\* the tool of agent_two/main.py: _get_sureify_context takes the product options as
\* /passthrough/product-options returns them
generate_product_recommendations_via_api_server ==
    /\ Len(tool_calls) < MaxCalls
    /\ \E changes_json \in CatalogChangesTexts, env \in Environments :
          /\ env = Observed(env, changes_json, "")
          /\ LET ctx == [db_context EXCEPT !.sureify_products = product_options]
                 outcome == RunTool(changes_json, client_id, "", env, ctx)
             IN  /\ tool_calls' = Append(tool_calls,
                        ToolCall("agent_two/main.py", changes_json, client_id, "",
                                 env, outcome))
                 /\ db_context' = [db_context EXCEPT
                                      !.client_suitability_profiles = outcome.profiles]
                 /\ rec_out' = outcome.result.out
    /\ UNCHANGED <<flagVars, client_id, changes, max_recommendations, product_options, chatVars, rowVars, apiVars>>

\* the tool of agents/agent_two.py: _get_sureify_context takes the product options
\* from sureify_client.get_products
generate_product_recommendations_via_sureify_client ==
    /\ Len(tool_calls) < MaxCalls
    /\ \E changes_json \in CatalogChangesTexts, env \in Environments :
          /\ env = Observed(env, changes_json, "")
          /\ LET ctx == [db_context EXCEPT
                             !.sureify_products = get_products(product_options)]
                 outcome == RunLegacyTool(changes_json, client_id, "", env, ctx)
             IN  /\ tool_calls' = Append(tool_calls,
                        ToolCall("agent_two.py", changes_json, client_id, "",
                                 env, outcome))
                 /\ rec_out' = outcome.result.out
    /\ UNCHANGED <<flagVars, client_id, db_context, changes, max_recommendations,
                   product_options, chatVars, rowVars, apiVars>>

NextCatalog ==
    \/ generate_product_recommendations_via_api_server
    \/ generate_product_recommendations_via_sureify_client

SpecCatalog == InitCatalog /\ [][NextCatalog]_vars

(***************************************************************************)
(* SpecClients: generate_recommendations for two clients, over the         *)
(* profiles on file and the client_id asked for.                           *)
(***************************************************************************)
JenniferRow == [client_account_number |-> "ACC-2002", client_name |-> "Jennifer Parker"]

MartyProfile == ProfileRow("ACC-1001", "Conservative", "10+ years", "High", "22%")

JenniferProfile ==
    [ProfileRow("ACC-2002", "Aggressive", "3-5 years", "Low", "32%") EXCEPT !.state = "CA"]

ProfileTables ==
    {<<>>, <<MartyProfile>>, <<JenniferProfile>>, <<MartyProfile, JenniferProfile>>,
     <<JenniferProfile, MartyProfile>>}

ClientIds == {"1001", "ACC-1001", "Marty", "ACC-2002", "Jennifer Parker", "9999"}

ClientChanges ==
    [suitability :
         {<<>>} \cup
         {<<[riskTolerance |-> a, timeHorizon |-> NONE, liquidityNeeds |-> c,
             clientObjectives |-> NONE, taxConsiderations |-> NONE]>> :
             a \in Opt("Moderate"), c \in Opt("Medium")},
     client_goals : {<<>>},
     client_profile : {<<>>}]

InitClients ==
    /\ today = 0 /\ policies = <<>> /\ book = NoBook /\ first_book = NoBook
    /\ alerts = NoAlerts
    /\ client_id \in ClientIds
    /\ changes \in ClientChanges
    /\ max_recommendations = DefaultMaxRecommendations
    /\ \E t \in ProfileTables :
          db_context = [NoContext EXCEPT
                            !.clients = <<MartyRow, JenniferRow>>,
                            !.client_suitability_profiles = t,
                            !.products = <<DbProduct("P1", RateNum(425), RateNum(100))>>]
    /\ rec_out = <<>>
    /\ tool_calls = <<>>
    /\ product_options = <<>>
    /\ chat_calls = <<>>
    /\ built_row = NoProfileRow
    /\ alerts_table = <<>>

SpecClients == InitClients /\ [][NextRec]_vars

(***************************************************************************)
(* SpecProfileRow: build_profile_row_from_changes over deltas and existing *)
(* rows.                                                                   *)
(***************************************************************************)
RowChanges ==
    [suitability :
         {<<>>} \cup
         {<<[riskTolerance |-> a, timeHorizon |-> b, liquidityNeeds |-> c,
             clientObjectives |-> NONE, taxConsiderations |-> NONE]>> :
             a \in Opt("Moderate"), b \in Opt("5-10 years"), c \in Opt("Low")},
     client_goals : {<<>>},
     client_profile :
         {<<>>} \cup
         {<<[grossIncome |-> a, householdNetWorth |-> b, householdLiquidAssets |-> NONE,
             taxBracket |-> d, disposableIncome |-> NONE]>> :
             a \in Opt("100k-150k"), b \in Opt("500k-1M"), d \in Opt("22%")}]

ExistingRows ==
    {<<>>} \cup
    {<<ProfileRow(acct, r, "10+ years", NONE, t)>> :
        acct \in {"ACCT002", "ACCT009"}, r \in Opt("Conservative"), t \in Opt("32%")}

InitProfileRow ==
    /\ today = 0 /\ policies = <<>> /\ book = NoBook /\ first_book = NoBook
    /\ alerts = NoAlerts
    /\ client_id = NONE
    /\ db_context = NoContext
    /\ changes \in RowChanges
    /\ max_recommendations = 0
    /\ rec_out = <<>>
    /\ tool_calls = <<>>
    /\ product_options = <<>>
    /\ chat_calls = <<>>
    /\ \E e \in ExistingRows :
          built_row = [client_account_number |-> "ACCT002", existing_row |-> e,
                       row |-> <<>>]
    /\ alerts_table = <<>>

BuildProfileRow ==
    /\ built_row' =
           [built_row EXCEPT
               !.row = <<build_profile_row_from_changes(built_row.client_account_number,
                                                        changes, built_row.existing_row)>>]
    /\ UNCHANGED <<flagVars, recVars, toolVars, chatVars, apiVars>>

NextProfileRow == BuildProfileRow

SpecProfileRow == InitProfileRow /\ [][NextProfileRow]_vars

(***************************************************************************)
(* POST /alerts (api/routers/alerts.py create_alerts)                      *)
(***************************************************************************)
\* the row create_alerts writes for one PolicyOutput; days_until_renewal is the
\* constant 365 the handler uses
AlertRowOf(policy_output) ==
    LET policy_id == policy_output.policy.ID
        has_issues == Len(policy_output.data_quality_issues) > 0
        days_until_renewal == 365
        priority ==
            IF days_until_renewal < 30 \/ policy_output.replacement_opportunity THEN "high"
            ELSE IF days_until_renewal < 90 \/ has_issues THEN "medium"
            ELSE "low"
        alert_type ==
            IF policy_output.replacement_opportunity THEN "replacement_opportunity"
            ELSE IF has_issues THEN "missing_info"
            ELSE IF policy_output.income_activation_eligible THEN "income_planning"
            ELSE IF policy_output.schedule_meeting THEN "suitability_review"
            ELSE "replacement_opportunity"
        alert_types ==
            (IF policy_output.replacement_opportunity
             THEN <<"replacement_opportunity">> ELSE <<>>)
            \o (IF has_issues THEN <<"missing_info">> ELSE <<>>)
            \o (IF policy_output.income_activation_eligible
                THEN <<"income_planning">> ELSE <<>>)
            \o (IF policy_output.schedule_meeting THEN <<"suitability_review">> ELSE <<>>)
    IN  [id |-> policy_id, policy_id |-> policy_id, priority |-> priority,
         has_data_exception |-> has_issues,
         missing_fields |-> policy_output.data_quality_issues,
         status |-> "pending", alert_type |-> alert_type, alert_types |-> alert_types]

\* INSERT ... ON CONFLICT (id) DO UPDATE: the status of a row on file is kept
UpsertAlert(table, row) ==
    LET hits == {i \in 1..Len(table) : table[i].id = row.id}
    IN  IF hits = {} THEN Append(table, row)
        ELSE [i \in 1..Len(table) |->
                 IF i \in hits THEN [row EXCEPT !.status = table[i].status] ELSE table[i]]

\* the table after the handler has gone through the policies from position i on
RECURSIVE create_alerts(_, _, _)
create_alerts(table, policy_outputs, i) ==
    IF i > Len(policy_outputs) THEN table
    ELSE create_alerts(UpsertAlert(table, AlertRowOf(policy_outputs[i])),
                       policy_outputs, i + 1)

\* the PolicyOutput records the endpoint accepts: every combination of the four flags
PostedPolicyOutputs(ids) ==
    {[po EXCEPT !.policy.ID = id] :
        po \in {x \in PolicyOutputs :
                   /\ x.data_quality_issues # FourIssues
                   /\ x.data_quality_severity = NONE
                   /\ x.notifications = <<>>
                   /\ x.days_until_renewal = NoInt},
        id \in ids}

PostedBooks ==
    {<<>>} \cup {<<a>> : a \in PostedPolicyOutputs({"POL-1"})}
    \cup {<<a, b>> : a \in PostedPolicyOutputs({"POL-1"}),
                     b \in PostedPolicyOutputs({"POL-1", "POL-2"})}

InitPost ==
    /\ today = 0
    /\ policies = <<>>
    /\ book \in {[customer_identifier |-> "Marty McFly", policies |-> q] :
                    q \in PostedBooks}
    /\ first_book = NoBook
    /\ alerts = NoAlerts
    /\ RecIdle

PostAlerts ==
    /\ alerts_table' = create_alerts(alerts_table, book.policies, 1)
    /\ UNCHANGED <<flagVars, recVars, toolVars, chatVars, rowVars>>

NextPost == PostAlerts

SpecPost == InitPost /\ [][NextPost]_vars

(***************************************************************************)
(* The chatbot entry point run_chat (agent_three/main.py)                  *)
(***************************************************************************)
MaxChats == 2

\* ScreenState(screen_state), "elsewhere" on ValueError
ScreenStateOf(screen_state) ==
    IF screen_state \in {"dashboard", "product_comparison", "elsewhere"}
    THEN screen_state ELSE "elsewhere"

\* what agent(message) does: it raises, it returns an object that str() renders, or
\* it returns a dict, with or without an "output" entry
AgentResults ==
    {[kind |-> "raises", output |-> "Simulated LLM failure"],
     [kind |-> "object", output |-> "Here is what I found."],
     [kind |-> "dict", output |-> "I can help with recommendations."],
     [kind |-> "dict", output |-> NONE],
     [kind |-> "dict_without_output", output |-> NONE]}

\* result.get("output", result) if isinstance(result, dict) else str(result):
\* the reply and whether it is a str
ReplyOf(result) ==
    IF result.kind = "object" THEN [is_str |-> TRUE, text |-> result.output]
    ELSE IF result.kind = "dict" /\ result.output # NONE
    THEN [is_str |-> TRUE, text |-> result.output]
    ELSE [is_str |-> FALSE, text |-> NONE]

ChatEvent(screen, success, error_message) ==
    [agent_id |-> "agent_three", screen_state |-> screen, success |-> success,
     error_message |-> error_message, input_validation_passed |-> TRUE]

\* one call of run_chat: the events handed to persist_event, in order, and the
\* ChatResponse returned or the exception that reaches the caller
run_chat(screen_state, result) ==
    LET screen == ScreenStateOf(screen_state)
        reply == ReplyOf(result)
    IN  IF result.kind = "raises"
        THEN [events |-> <<ChatEvent(screen, FALSE, result.output)>>,
              raised |-> result.output, response |-> <<>>]
        ELSE IF ~reply.is_str
        THEN \* the success event is persisted, then ChatResponse(reply=...) raises a
             \* ValidationError inside the same try block
             [events |-> <<ChatEvent(screen, TRUE, NONE),
                           ChatEvent(screen, FALSE, "ValidationError")>>,
              raised |-> "ValidationError", response |-> <<>>]
        ELSE [events |-> <<ChatEvent(screen, TRUE, NONE)>>,
              raised |-> NONE,
              response |-> <<[reply |-> reply.text, screen_state |-> screen,
                              agent_two_invoked |-> FALSE]>>]

InitChat ==
    /\ today = 0
    /\ policies = <<>>
    /\ book = NoBook
    /\ first_book = NoBook
    /\ alerts = NoAlerts
    /\ RecIdle

RunChat ==
    /\ Len(chat_calls) < MaxChats
    /\ \E screen_state \in {"dashboard", "elsewhere", "settings"}, result \in AgentResults :
          chat_calls' = Append(chat_calls,
                               [screen_state |-> screen_state, result |-> result,
                                call |-> run_chat(screen_state, result)])
    /\ UNCHANGED <<flagVars, recVars, toolVars, rowVars, apiVars>>

NextChat == RunChat

SpecChat == InitChat /\ [][NextChat]_vars

(***************************************************************************)
(* Properties of the Policy Flag Engine and the Alert Mapper               *)
(***************************************************************************)
BookIndices == 1..Len(book.policies)

\* the PolicyFlags of a PolicyOutput
PolicyFlags(po) ==
    [replacement_opportunity |-> po.replacement_opportunity,
     replacement_reason |-> po.replacement_reason,
     data_quality_issues |-> po.data_quality_issues,
     data_quality_severity |-> po.data_quality_severity,
     income_activation_eligible |-> po.income_activation_eligible,
     income_activation_reason |-> po.income_activation_reason,
     schedule_meeting |-> po.schedule_meeting,
     schedule_meeting_reason |-> po.schedule_meeting_reason]

HasRenewalNotification(po) ==
    \E k \in 1..Len(po.notifications) :
        po.notifications[k].notification_type = "renewal_in_30_days"

DaysIs(po, S) == po.days_until_renewal # NoInt /\ po.days_until_renewal[1] \in S

\* C1: for every policy, apply_business_logic returns schedule_meeting = true iff
\* replacement_opportunity is true, or data_quality_issues is non-empty, or
\* income_activation_eligible is true.
C1_ScheduleMeetingIff ==
    \A i \in BookIndices :
        LET po == book.policies[i]
        IN  po.schedule_meeting <=>
                \/ po.replacement_opportunity
                \/ Len(po.data_quality_issues) > 0
                \/ po.income_activation_eligible

\* a run whose only trigger is income activation, and the meeting is recommended
C1_Witness ==
    /\ Len(book.policies) = 1
    /\ book.policies[1].income_activation_eligible
    /\ ~book.policies[1].replacement_opportunity
    /\ Len(book.policies[1].data_quality_issues) = 0
    /\ book.policies[1].schedule_meeting

\* C2: every Alert the mapper produces has a non-empty alertTypes list whose first
\* element equals its alertType, for every combination of policy flags.
C2_AlertTypesNonEmpty ==
    \A i \in 1..Len(alerts.alerts) :
        /\ Len(alerts.alerts[i].alertTypes) > 0
        /\ alerts.alerts[i].alertTypes[1] = alerts.alerts[i].alertType

\* a mapped book whose second policy has no flag set and got the default list
C2_Witness ==
    /\ Len(alerts.alerts) = 2
    /\ ~alerts.of.policies[2].replacement_opportunity
    /\ Len(alerts.of.policies[2].data_quality_issues) = 0
    /\ ~alerts.of.policies[2].income_activation_eligible
    /\ ~alerts.of.policies[2].schedule_meeting
    /\ alerts.alerts[2].alertTypes = <<"suitability_review">>

\* C3 as stated: days_until_renewal = 0 or 31 gives no renewal notification and no
\* "maturing" replacement reason; days_until_renewal = 1 or 30 gives both.
C3_Original ==
    \A i \in BookIndices :
        LET po == book.policies[i]
        IN  /\ DaysIs(po, {0, 31}) =>
                ~HasRenewalNotification(po) /\ po.replacement_reason # MaturingReason
            /\ DaysIs(po, {1, 30}) =>
                HasRenewalNotification(po) /\ po.replacement_reason = MaturingReason

\* C3 as amended: at 0 or 31 days neither is produced; at 1 or 30 days the renewal
\* notification is produced, and the "maturing" replacement reason exactly when the
\* policy's status is "inforce".
C3_RenewalBoundary ==
    \A i \in BookIndices :
        LET po == book.policies[i]
        IN  /\ DaysIs(po, {0, 31}) =>
                ~HasRenewalNotification(po) /\ po.replacement_reason # MaturingReason
            /\ DaysIs(po, {1, 30}) =>
                /\ HasRenewalNotification(po)
                /\ po.replacement_reason = MaturingReason
                     <=> Lower(OrEmpty(po.policy.status)) = "inforce"

\* an inforce policy 30 days before its renewal, with notification and reason
C3_Witness ==
    /\ Len(book.policies) = 1
    /\ DaysIs(book.policies[1], {30})
    /\ book.policies[1].policy.status = "Inforce"
    /\ HasRenewalNotification(book.policies[1])
    /\ book.policies[1].replacement_reason = MaturingReason

\* C6 as stated (Policy Flag Engine half): for a fixed PolicyRecord, every run
\* yields the PolicyFlags of the first run, whenever the run is made.
C6_FlagsIdempotent ==
    \A i \in BookIndices :
        i <= Len(first_book.policies) =>
            PolicyFlags(book.policies[i]) = PolicyFlags(first_book.policies[i])

\* C7 as stated: a policy the engine flags only income_activation_eligible maps to
\* alertTypes = ["income_planning"] and priority "low".
IncomeOnly(po) ==
    /\ po.income_activation_eligible
    /\ ~po.replacement_opportunity
    /\ Len(po.data_quality_issues) = 0
    /\ ~HasUrgent(po)

C7_Original ==
    \A i \in 1..Len(alerts.alerts) :
        IncomeOnly(alerts.of.policies[i]) =>
            /\ alerts.alerts[i].alertTypes = <<"income_planning">>
            /\ alerts.alerts[i].priority = "low"

\* C7 as amended: such a policy maps to alertTypes = ["income_planning",
\* "suitability_review"] (the engine also sets schedule_meeting), primary alertType
\* "income_planning" and priority "low".
C7_IncomeOnlyAlert ==
    \A i \in 1..Len(alerts.alerts) :
        IncomeOnly(alerts.of.policies[i]) =>
            /\ alerts.alerts[i].alertTypes = <<"income_planning", "suitability_review">>
            /\ alerts.alerts[i].alertType = "income_planning"
            /\ alerts.alerts[i].priority = "low"

\* an income-only policy of the engine has been mapped
C7_Witness ==
    /\ Len(alerts.alerts) = 1
    /\ IncomeOnly(alerts.of.policies[1])
    /\ alerts.alerts[1].priority = "low"

\* C30: for every PolicyOutput the engine's book holds (its only notification is
\* the "warning" renewal notice), the Alert Mapper assigns priority "high" if and
\* only if the policy has 3 or more data-quality issues; an imminent renewal alone
\* never raises the priority above "medium".
C30_EnginePriority ==
    \A i \in 1..Len(alerts.alerts) :
        LET po == alerts.of.policies[i]
        IN  /\ alerts.alerts[i].priority = "high" <=> Len(po.data_quality_issues) >= 3
            /\ HasRenewalNotification(po) /\ Len(po.data_quality_issues) < 3
                   => alerts.alerts[i].priority \in {"low", "medium"}

\* a policy with a renewal notice and three data-quality issues has been mapped to
\* "high"
C30_Witness ==
    /\ Len(alerts.alerts) = 1
    /\ HasRenewalNotification(alerts.of.policies[1])
    /\ Len(alerts.of.policies[1].data_quality_issues) = 3
    /\ alerts.alerts[1].priority = "high"

(***************************************************************************)
(* Properties of the roles/contacts check (SpecFlags)                      *)
(***************************************************************************)
HasRolesIssue(po) ==
    \E k \in 1..Len(po.data_quality_issues) :
        po.data_quality_issues[k] = "Missing roles/contacts"

\* C22: "Missing roles/contacts" is reported only for a policy record that carries a
\* roles key with zero entries; a record without a roles key never gets that issue.
C22_RolesIssue ==
    \A i \in BookIndices :
        LET po == book.policies[i]
        IN  /\ HasRolesIssue(po) => po.policy.roles.has_key /\ po.policy.roles.n = 0
            /\ ~po.policy.roles.has_key => ~HasRolesIssue(po)

\* a policy with an empty roles key carries the issue
C22_Witness ==
    \E i \in BookIndices :
        /\ HasRolesIssue(book.policies[i])
        /\ book.policies[i].policy.roles.has_key

(***************************************************************************)
(* Properties of get_renewal_info (SpecRenewal)                            *)
(***************************************************************************)
\* the first present field among renewalDate, maturityDate, nextPremiumDueDate,
\* coveredUntilDate
FirstPresentDate(p) ==
    IF p.renewalDate # NoDate THEN p.renewalDate
    ELSE IF p.maturityDate # NoDate THEN p.maturityDate
    ELSE IF p.nextPremiumDueDate # NoDate THEN p.nextPremiumDueDate
    ELSE p.coveredUntilDate

\* the value is a calendar date, in any of the formats "%Y-%m-%d", "%Y/%m/%d",
\* "%m/%d/%Y", "%d-%b-%Y"
IsCalendarDate(v) == v.kind \in {"date", "dmy11"}

\* C21: get_renewal_info derives its result from the first present field among
\* renewalDate, maturityDate, nextPremiumDueDate, coveredUntilDate: days_until_renewal
\* is the number of days from today to that date when it is 0 or more, and undefined
\* when it is negative or the value is unparsable (the raw string is then the date);
\* days_until_renewal is never negative.
C21_Original ==
    \A i \in BookIndices :
        LET po == book.policies[i]
            v == FirstPresentDate(po.policy)
        IN  /\ v = NoDate => po.days_until_renewal = NoInt
            /\ IsCalendarDate(v) =>
                   po.days_until_renewal =
                       IF v.day - today >= 0 THEN Some(v.day - today) ELSE NoInt
            /\ v = BadDate =>
                   po.days_until_renewal = NoInt /\ po.renewal_date.kind = "raw"
            /\ po.days_until_renewal # NoInt => po.days_until_renewal[1] >= 0

(***************************************************************************)
(* Properties of the Alert Mapper on any book (SpecAlerts)                 *)
(***************************************************************************)
AlertIndices == 1..Len(alerts.alerts)

\* C13: an Alert's priority is "high" if the policy's data-quality severity is
\* "high" or any of its notifications has severity "urgent"; otherwise "medium"
\* if the severity is "medium" or replacement_opportunity is true; otherwise "low".
C13_Priority ==
    \A i \in AlertIndices :
        LET po == alerts.of.policies[i]
            any_urgent == \E k \in 1..Len(po.notifications) :
                              po.notifications[k].severity = "urgent"
        IN  alerts.alerts[i].priority =
                IF po.data_quality_severity = "high" \/ any_urgent THEN "high"
                ELSE IF po.data_quality_severity = "medium" \/ po.replacement_opportunity
                THEN "medium"
                ELSE "low"

\* a policy of severity "medium" whose second notification is urgent: "high"
C13_Witness ==
    /\ Len(alerts.alerts) >= 1
    /\ alerts.of.policies[1].data_quality_severity = "medium"
    /\ Len(alerts.of.policies[1].notifications) = 2
    /\ alerts.of.policies[1].notifications[1].severity # "urgent"
    /\ alerts.of.policies[1].notifications[2].severity = "urgent"
    /\ alerts.alerts[1].priority = "high"

AnyFlagSet(po) ==
    \/ po.replacement_opportunity
    \/ Len(po.data_quality_issues) > 0
    \/ po.income_activation_eligible
    \/ po.schedule_meeting

\* the alert types of the flags that are set, in the fixed order
TypesInOrder(po) ==
    (IF po.replacement_opportunity THEN <<"replacement_opportunity">> ELSE <<>>)
    \o (IF Len(po.data_quality_issues) > 0 THEN <<"missing_info">> ELSE <<>>)
    \o (IF po.income_activation_eligible THEN <<"income_planning">> ELSE <<>>)
    \o (IF po.schedule_meeting THEN <<"suitability_review">> ELSE <<>>)

\* C14: alertTypes holds, in this fixed order and without duplicates,
\* "replacement_opportunity" iff replacement_opportunity is set, "missing_info" iff
\* data_quality_issues is non-empty, "income_planning" iff
\* income_activation_eligible is set and "suitability_review" iff schedule_meeting
\* is set; if no flag is set it is exactly ["suitability_review"] with description
\* "Review recommended".
C14_AlertTypesInOrder ==
    \A i \in AlertIndices :
        LET po == alerts.of.policies[i]
            a == alerts.alerts[i]
        IN  IF AnyFlagSet(po)
            THEN a.alertTypes = TypesInOrder(po)
            ELSE /\ a.alertTypes = <<"suitability_review">>
                 /\ a.alertDescription = "Review recommended"

\* a policy with the four flags set has the four types, in order
C14_Witness ==
    /\ Len(alerts.alerts) >= 1
    /\ alerts.of.policies[1].replacement_opportunity
    /\ Len(alerts.of.policies[1].data_quality_issues) > 0
    /\ alerts.of.policies[1].income_activation_eligible
    /\ alerts.of.policies[1].schedule_meeting
    /\ alerts.alerts[1].alertTypes =
           <<"replacement_opportunity", "missing_info", "income_planning",
             "suitability_review">>

\* C15: for any batch of policies, DashboardStats.total is the number of alerts
\* (one per policy), high the number of alerts with priority "high", and urgent
\* the number of policies with days_until_renewal <= 30.
C15_Original ==
    Len(alerts.alerts) > 0 =>
        /\ Len(alerts.alerts) = Len(alerts.of.policies)
        /\ alerts.stats.total = Len(alerts.alerts)
        /\ alerts.stats.high =
               Cardinality({i \in AlertIndices : alerts.alerts[i].priority = "high"})
        /\ alerts.stats.urgent =
               Cardinality({i \in AlertIndices : DaysIs(alerts.of.policies[i], 0..30)})

\* C28: DashboardStats.urgent counts only policies whose renewal is known to be at
\* most 30 days away: a policy of the engine's book whose days_until_renewal is
\* undefined (no date, unparsable date or past date) is not counted as urgent.
C28_Original ==
    Len(alerts.alerts) > 0 =>
        alerts.stats.urgent <=
            Cardinality({i \in 1..Len(alerts.of.policies) :
                            /\ alerts.of.policies[i].days_until_renewal # NoInt
                            /\ alerts.of.policies[i].days_until_renewal[1] <= 30})

(***************************************************************************)
(* Properties of the four checks of the Policy Flag Engine (SpecFlags)     *)
(***************************************************************************)
\* C11: check_data_quality returns no severity for 0 issues, "medium" for 1 or 2
\* issues and "high" for 3 or more issues; it never returns "low".
C11_SeverityByCount ==
    \A i \in BookIndices :
        LET po == book.policies[i]
            n == Len(po.data_quality_issues)
        IN  /\ n = 0 => po.data_quality_severity = NONE
            /\ n \in {1, 2} => po.data_quality_severity = "medium"
            /\ n >= 3 => po.data_quality_severity = "high"
            /\ po.data_quality_severity # "low"

\* a policy missing policyNumber and carrier only: two issues, "medium"
C11_Witness ==
    /\ Len(book.policies) = 1
    /\ book.policies[1].policy.policyNumber = NONE
    /\ book.policies[1].policy.carrier = NONE
    /\ Len(book.policies[1].data_quality_issues) = 2
    /\ book.policies[1].data_quality_severity = "medium"

\* the policies that differ from p in the fields check_data_quality reads
DataQualityShapes(p) ==
    {[p EXCEPT !.policyNumber = num, !.carrier = ca, !.effectiveDate = ed, !.roles = ro] :
        num \in {"PN-1", NONE},
        ca \in {"Acme Life", NONE},
        ed \in {"2020-01-01", NONE},
        ro \in {[has_key |-> FALSE, n |-> 0], [has_key |-> TRUE, n |-> 0]}}

IssueSet(issues) == {issues[k] : k \in 1..Len(issues)}

\* the order none < medium < high
SeverityRank(severity) ==
    CASE severity = "high" -> 2
      [] severity = "medium" -> 1
      [] OTHER -> 0

\* C12: if the issues of policy B are a superset of the issues of policy A, the
\* severity of B is at least that of A in the order none < medium < high.
C12_SeverityMonotone ==
    \A i \in BookIndices :
        LET a == book.policies[i]
        IN  \A pb \in DataQualityShapes(a.policy) :
                LET b == check_data_quality(pb)
                IN  IssueSet(a.data_quality_issues) \subseteq IssueSet(b.issues)
                        => SeverityRank(b.severity) >= SeverityRank(a.data_quality_severity)

\* a policy with three issues whose fourth issue is added: "high" stays "high"
C12_Witness ==
    /\ Len(book.policies) = 1
    /\ Len(book.policies[1].data_quality_issues) = 3
    /\ book.policies[1].data_quality_severity = "high"
    /\ \E pb \in DataQualityShapes(book.policies[1].policy) :
            /\ Len(check_data_quality(pb).issues) = 4
            /\ IssueSet(book.policies[1].data_quality_issues)
                   \subseteq IssueSet(check_data_quality(pb).issues)
            /\ check_data_quality(pb).severity = "high"

IsInforce(p) == p.status \in {"Inforce", "INFORCE"}

\* the product name contains "fixed" or "term", or the product code starts with "T"
MatchesHeuristic(p) ==
    \/ p.productName \in {"Fixed Annuity Plus", "Level Term 20"}
    \/ p.productCode = "T20"

HeuristicReasons ==
    {"Fixed/term product may have replacement options for better value",
     "Term policy; conversion or replacement may be beneficial"}

\* C17: check_replacement_opportunity is false for every policy that is not
\* inforce; for an inforce policy it is true with the maturing reason when
\* 1 <= days_until_renewal <= 30, even if the product matches the heuristic,
\* otherwise true with a heuristic reason when the name contains "fixed" or
\* "term" or the code starts with "T", otherwise false.
C17_ReplacementOpportunity ==
    \A i \in BookIndices :
        LET po == book.policies[i]
            p == po.policy
        IN  IF ~IsInforce(p)
            THEN ~po.replacement_opportunity /\ po.replacement_reason = NONE
            ELSE IF DaysIs(po, 1..30)
            THEN po.replacement_opportunity /\ po.replacement_reason = MaturingReason
            ELSE IF MatchesHeuristic(p)
            THEN po.replacement_opportunity /\ po.replacement_reason \in HeuristicReasons
            ELSE ~po.replacement_opportunity /\ po.replacement_reason = NONE

\* an inforce fixed product 30 days from renewal: the maturing reason wins
C17_Witness ==
    /\ Len(book.policies) = 1
    /\ IsInforce(book.policies[1].policy)
    /\ MatchesHeuristic(book.policies[1].policy)
    /\ DaysIs(book.policies[1], {30})
    /\ book.policies[1].replacement_opportunity
    /\ book.policies[1].replacement_reason = MaturingReason

IsAnnuity(p) == p.productType \in {"Fixed Annuity"}

\* C18: check_income_activation_eligible is true exactly when the status is
\* inforce and the product is annuity-family, with or without a payout schedule
\* (the reason differs between the two); in every other case, a life product
\* with cash value included, it is false.
C18_IncomeActivation ==
    \A i \in BookIndices :
        LET po == book.policies[i]
            p == po.policy
        IN  /\ po.income_activation_eligible <=> (IsInforce(p) /\ IsAnnuity(p))
            /\ po.income_activation_eligible =>
                   po.income_activation_reason =
                       IF p.payoutSchedule
                       THEN "Annuity with payout; income options may apply"
                       ELSE "Annuity in accumulation phase; eligible for income activation or RMD"
            /\ ~po.income_activation_eligible => po.income_activation_reason = NONE

\* an inforce annuity that already has a payout schedule is eligible
C18_Witness ==
    /\ Len(book.policies) = 1
    /\ IsInforce(book.policies[1].policy)
    /\ IsAnnuity(book.policies[1].policy)
    /\ book.policies[1].policy.payoutSchedule
    /\ book.policies[1].income_activation_eligible
    /\ book.policies[1].income_activation_reason
           = "Annuity with payout; income options may apply"

(***************************************************************************)
(* Properties of the merge, the ranking and the explanation                *)
(***************************************************************************)
Called == Len(rec_out) = 1
Out == rec_out[1]

\* the catalog the call selects: the Sureify products when there are any
SelectedCatalog ==
    IF Len(db_context.sureify_products) > 0
    THEN db_context.sureify_products ELSE db_context.products

\* whether a catalog entry carries a product id under any of its aliases
HasProductId(p) ==
    IF Len(db_context.sureify_products) > 0
    THEN p.product_id # NONE \/ p.ID # NONE \/ p.productCode # NONE
    ELSE p.product_id # NONE

\* the numeric rate of a recommendation: its rate when that is a number, else 0
NumericRate(r) == IF r.rate.t = "numstr" THEN r.rate.n ELSE 0

\* the recommendation a catalog entry yields, whatever its rank: an entry without
\* a product id is given one, so that its rate can be read
EntryRecommendation(p) ==
    IF Len(db_context.sureify_products) > 0
    THEN SureifyRecommendation(IF HasProductId(p) THEN p ELSE [p EXCEPT !.ID = "anonymous"],
                               <<>>)
    ELSE DbRecommendation(IF HasProductId(p) THEN p
                          ELSE [p EXCEPT !.product_id = "anonymous"], <<>>)

\* recs is the first n of the entries at the catalog positions in `among`, ranked
\* by descending numeric rate, entries of equal rate in catalog order
RankedFirst(recs, among, n) ==
    LET cat == SelectedCatalog
        rate(i) == NumericRate(EntryRecommendation(cat[i])[1])
        \* catalog position i ranks before catalog position j
        before(i, j) == rate(i) > rate(j) \/ (rate(i) = rate(j) /\ i < j)
        rank(i) == Cardinality({j \in among : before(j, i)}) + 1
        size == IF Cardinality(among) < n THEN Cardinality(among) ELSE n
    IN  /\ Len(recs) = size
        /\ \A i \in among :
              rank(i) <= size =>
                  /\ NumericRate(recs[rank(i)]) = rate(i)
                  /\ HasProductId(cat[i]) =>
                        recs[rank(i)].product_id = EntryRecommendation(cat[i])[1].product_id

\* C4 as stated: the result is the first max_recommendations entries of the catalog
\* sorted by descending numeric rate (missing or non-numeric as 0), ties in input order.
C4_Original ==
    Called =>
        RankedFirst(Out.recommendations, 1..Len(SelectedCatalog), max_recommendations)

\* C4 as amended: the same, over the catalog entries that carry a product id
\* (entries without one are skipped before the ranking).
C4_Ranking ==
    Called =>
        RankedFirst(Out.recommendations,
                    {i \in 1..Len(SelectedCatalog) : HasProductId(SelectedCatalog[i])},
                    max_recommendations)

\* three entries with ids, rated N/A, 4.25 and "4.25%", cut to the two 4.25 in input order
C4_Witness ==
    /\ Called
    /\ max_recommendations = 2
    /\ Len(db_context.sureify_products) = 3
    /\ \A i \in 1..3 : HasProductId(db_context.sureify_products[i])
    /\ db_context.sureify_products[1].rate = RateNA
    /\ db_context.sureify_products[2].rate = RateStr(425, FALSE)
    /\ db_context.sureify_products[3].rate = RateStr(425, TRUE)
    /\ Len(Out.recommendations) = 2
    /\ Out.recommendations[1].product_id = "P2"
    /\ Out.recommendations[2].product_id = "P3"

\* the delta fields and the merged keys they are written to
SuitabilityMap ==
    {<<"riskTolerance", "risk_tolerance">>, <<"timeHorizon", "time_horizon">>,
     <<"liquidityNeeds", "liquidity_needs">>, <<"clientObjectives", "client_objectives">>}

GoalsMap ==
    {<<"financialObjectives", "financial_objectives">>,
     <<"distributionPlan", "distribution_plan">>,
     <<"expectedHoldingPeriod", "expected_holding_period">>}

ProfileMap ==
    {<<"grossIncome", "gross_income">>, <<"householdNetWorth", "household_net_worth">>,
     <<"householdLiquidAssets", "household_liquid_assets">>, <<"taxBracket", "tax_bracket">>}

\* every non-null field of the section that the merge maps is at its key of the merged
\* dict, and the value of a field it does not map is at no key
DeltaWins(section, map, merged) ==
    Len(section) = 1 =>
        /\ \A m \in map :
              section[1][m[1]] # NONE =>
                  m[2] \in DOMAIN merged /\ merged[m[2]] = section[1][m[1]]
        /\ \A f \in DOMAIN section[1] \ {m[1] : m \in map} :
              section[1][f] # NONE => \A k \in DOMAIN merged : merged[k] # section[1][f]

\* every non-null field of the section has a field of the merged dict that holds it
DeltaCarried(section, merged) ==
    Len(section) = 1 =>
        \A f \in DOMAIN section[1] :
            section[1][f] # NONE => \E k \in DOMAIN merged : merged[k] = section[1][f]

\* C5 as stated: for any field present (non-null) in ChangesInput, the merged
\* profile has a corresponding field, and it equals the delta value, regardless of
\* the baseline value.
C5_Original ==
    Called =>
        /\ DeltaCarried(changes.suitability, Out.merged_profile_summary.suitability)
        /\ DeltaCarried(changes.client_goals, Out.merged_profile_summary.goals_and_profile)
        /\ DeltaCarried(changes.client_profile, Out.merged_profile_summary.goals_and_profile)

\* C5, amended: for each of the eleven fields the merge maps, a non-null delta value
\* is the value of the corresponding merged field, regardless of the baseline value;
\* the other fields of ChangesInput are not carried into the merged profile.
C5_MergePrecedence ==
    Called =>
        /\ DeltaWins(changes.suitability, SuitabilityMap,
                     Out.merged_profile_summary.suitability)
        /\ DeltaWins(changes.client_goals, GoalsMap,
                     Out.merged_profile_summary.goals_and_profile)
        /\ DeltaWins(changes.client_profile, ProfileMap,
                     Out.merged_profile_summary.goals_and_profile)

\* delta riskTolerance "Aggressive" over baseline risk_tolerance "Conservative"
C5_Witness ==
    /\ Called
    /\ Len(db_context.client_suitability_profiles) = 1
    /\ db_context.client_suitability_profiles[1].risk_tolerance = "Conservative"
    /\ db_context.client_suitability_profiles[1].tax_bracket = "22%"
    /\ Len(changes.suitability) = 1
    /\ changes.suitability[1].riskTolerance = "Aggressive"
    /\ Len(changes.client_profile) = 1
    /\ changes.client_profile[1].taxBracket = "24%"
    /\ changes.suitability[1].taxConsiderations = "Tax-deferred"
    /\ Out.merged_profile_summary.suitability["risk_tolerance"] = "Aggressive"
    /\ Out.merged_profile_summary.goals_and_profile["tax_bracket"] = "24%"

\* the numeric rates among the recommendations of the output
RecommendedRates ==
    {Out.recommendations[i].rate.n :
        i \in {j \in 1..Len(Out.recommendations) : Out.recommendations[j].rate.t = "numstr"}}

Cons == Out.reasons_to_switch.cons

\* C8 as stated: with a numeric recommended rate, cons states the spread between the
\* minimum and the maximum recommended rate and the opportunity cost of the maximum;
\* with no recommended rate, cons is the generic "missing opportunity" string.
C8_Original ==
    Called =>
        IF RecommendedRates # {}
        THEN /\ \E i \in 1..Len(Cons) :
                    Cons[i].rate = SetMax(RecommendedRates) - SetMin(RecommendedRates)
             /\ \E i \in 1..Len(Cons) :
                    Cons[i] = [template |-> "missing_higher",
                               rate |-> SetMax(RecommendedRates)]
        ELSE Cons = <<[template |-> "missing_generic", rate |-> 0]>>

\* C8 as amended: with a numeric recommended rate, cons names the minimum rate as a
\* rate drop when it is below the maximum, then the opportunity cost of the maximum
\* when that is above 0, and never the spread; with recommendations but no numeric
\* rate it is the generic string; with no recommendation it is empty.
C8_Cons ==
    Called =>
        IF RecommendedRates # {}
        THEN Cons =
                (IF SetMin(RecommendedRates) < SetMax(RecommendedRates)
                 THEN <<[template |-> "rate_drop", rate |-> SetMin(RecommendedRates)]>>
                 ELSE <<>>)
                \o (IF SetMax(RecommendedRates) > 0
                    THEN <<[template |-> "missing_higher",
                            rate |-> SetMax(RecommendedRates)]>>
                    ELSE <<>>)
        ELSE IF Len(Out.recommendations) > 0
        THEN Cons = <<[template |-> "missing_generic", rate |-> 0]>>
        ELSE Cons = <<>>

\* the catalog [4.25%, 2.00%]: cons names 2.00 and 4.25
C8_Witness ==
    /\ Called
    /\ Len(Out.recommendations) = 2
    /\ Out.recommendations[1].rate = RateStr(425, TRUE)
    /\ Out.recommendations[2].rate = RateStr(200, TRUE)
    /\ Cons = <<[template |-> "rate_drop", rate |-> 200],
                [template |-> "missing_higher", rate |-> 425]>>

\* the merged keys the non-null fields of a delta section are written to
Written(section, map) ==
    IF Len(section) = 0 THEN {}
    ELSE {m[2] : m \in {x \in map : section[1][x[1]] # NONE}}

\* merged holds the baseline columns and the written keys, and every column that
\* is not written has its baseline value; without a baseline it holds the written
\* keys only
FrameOf(merged, columns, written) ==
    LET b == db_context.client_suitability_profiles
    IN  IF Len(b) > 0
        THEN /\ DOMAIN merged = columns \cup written
             /\ \A k \in columns \ written : merged[k] = b[1][k]
        ELSE DOMAIN merged = written

\* C20: a delta field overwrites only its own merged key: every merged field
\* without a non-null delta value keeps its baseline value, and without a baseline
\* only delta-provided fields are populated; a delta timeHorizon is written to
\* time_horizon and leaves the baseline-seeded investment_horizon unchanged.
C20_MergeFrame ==
    Called =>
        LET ms == Out.merged_profile_summary.suitability
            mg == Out.merged_profile_summary.goals_and_profile
            b == db_context.client_suitability_profiles
        IN  /\ FrameOf(ms, SuitabilityColumns, Written(changes.suitability, SuitabilityMap))
            /\ FrameOf(mg, GoalsColumns,
                       Written(changes.client_goals, GoalsMap)
                           \cup Written(changes.client_profile, ProfileMap))
            /\ (Len(changes.suitability) = 1 /\ changes.suitability[1].timeHorizon # NONE) =>
                   /\ ms["time_horizon"] = changes.suitability[1].timeHorizon
                   /\ Len(b) > 0 => ms["investment_horizon"] = b[1].investment_horizon

\* baseline investment_horizon "10+ years" and delta timeHorizon "5-10 years": both
\* are in the merged suitability, and a delta grossIncome leaves annual_income_range
C20_Witness ==
    /\ Called
    /\ Len(db_context.client_suitability_profiles) = 1
    /\ db_context.client_suitability_profiles[1].investment_horizon = "10+ years"
    /\ Len(changes.suitability) = 1
    /\ changes.suitability[1].timeHorizon = "5-10 years"
    /\ Len(changes.client_profile) = 1
    /\ changes.client_profile[1].grossIncome = "100k"
    /\ Out.merged_profile_summary.suitability["time_horizon"] = "5-10 years"
    /\ Out.merged_profile_summary.suitability["investment_horizon"] = "10+ years"
    /\ Out.merged_profile_summary.goals_and_profile["annual_income_range"] = "50k-100k"

(***************************************************************************)
(* Properties of the source selection (SpecSources)                        *)
(***************************************************************************)
\* a delta section carries a non-null value in a field the merge maps
HasMapped(section, map) ==
    Len(section) = 1 /\ \E m \in map : section[1][m[1]] # NONE

\* suitability/goals data is present: a baseline profile, or a mapped delta value
SuitabilityDataPresent ==
    \/ Len(db_context.client_suitability_profiles) > 0
    \/ HasMapped(changes.suitability, SuitabilityMap)
    \/ HasMapped(changes.client_goals, GoalsMap)
    \/ HasMapped(changes.client_profile, ProfileMap)

\* C16: data_sources_used names the sources used: its first element is
\* "sureify_products" exactly when the external catalog is non-empty (the
\* recommendations then come only from that catalog) and "db_products" otherwise
\* (they then come only from the baseline catalog), and "db_suitability" is
\* appended exactly when any suitability/goals data is present in the merged
\* profile.
C16_DataSources ==
    Called =>
        LET src == Out.explanation.data_sources_used
            recs == Out.recommendations
            ext == db_context.sureify_products
            base == db_context.products
        IN  /\ src[1] = IF Len(ext) > 0 THEN "sureify_products" ELSE "db_products"
            /\ Len(ext) > 0 =>
                   \A k \in 1..Len(recs) : \E i \in 1..Len(ext) :
                       SureifyRecommendation(ext[i], recs[k].match_reason) = <<recs[k]>>
            /\ Len(ext) = 0 =>
                   \A k \in 1..Len(recs) : \E i \in 1..Len(base) :
                       DbRecommendation(base[i], recs[k].match_reason) = <<recs[k]>>
            /\ src = <<src[1]>> \o (IF SuitabilityDataPresent
                                     THEN <<"db_suitability">> ELSE <<>>)

\* both catalogs hold a product, there is no baseline and the delta carries one
\* goal: the recommendation is the external product and both sources are named
C16_Witness ==
    /\ Called
    /\ Len(db_context.sureify_products) = 1
    /\ Len(db_context.products) = 1
    /\ Len(db_context.client_suitability_profiles) = 0
    /\ changes.suitability = <<>>
    /\ Len(changes.client_goals) = 1
    /\ Len(Out.recommendations) = 1
    /\ Out.recommendations[1].product_id = "P1"
    /\ Out.explanation.data_sources_used = <<"sureify_products", "db_suitability">>

(***************************************************************************)
(* Properties of choice_criteria (SpecCriteria)                            *)
(***************************************************************************)
\* a value that is not empty once trimmed
Filled(v) == v \notin {NONE, "", " "}

\* the value of a criterion stored under two names: the first name when it is set
FirstGiven(a, b) == IF a \in {NONE, ""} THEN b ELSE a

\* the five criteria in their fixed order, each with its merged-profile value
CriteriaValues ==
    LET suit == Out.merged_profile_summary.suitability
        goals == Out.merged_profile_summary.goals_and_profile
    IN  <<[label |-> "risk tolerance", value |-> Get(suit, "risk_tolerance")],
          [label |-> "time horizon",
           value |-> FirstGiven(Get(suit, "time_horizon"), Get(suit, "investment_horizon"))],
          [label |-> "liquidity needs",
           value |-> FirstGiven(Get(suit, "liquidity_needs"),
                                Get(suit, "liquidity_importance"))],
          [label |-> "financial objectives",
           value |-> FirstGiven(Get(suit, "client_objectives"),
                                Get(goals, "financial_objectives"))],
          [label |-> "expected holding period",
           value |-> Get(goals, "expected_holding_period")]>>

FilledCriteria ==
    LET sel == SelectSeq(CriteriaValues, LAMBDA e : Filled(e.value))
    IN  [k \in 1..Len(sel) |-> sel[k].label]

\* C23: choice_criteria lists, in the fixed order risk tolerance, time horizon,
\* liquidity needs, objectives, expected holding period, exactly the criteria whose
\* merged-profile value is non-empty; it is <<"product catalog match">> when none is,
\* and it is never empty.
C23_ChoiceCriteria ==
    Called =>
        /\ Out.explanation.choice_criteria =
               IF Len(FilledCriteria) = 0 THEN <<"product catalog match">>
               ELSE FilledCriteria
        /\ Len(Out.explanation.choice_criteria) > 0

\* the delta's risk tolerance is blank and the baseline supplies the horizon and the
\* liquidity: the list starts at "time horizon"
C23_Witness ==
    /\ Called
    /\ Get(Out.merged_profile_summary.suitability, "risk_tolerance") = " "
    /\ Get(Out.merged_profile_summary.suitability, "time_horizon") = NONE
    /\ Len(Out.explanation.choice_criteria) >= 2
    /\ Out.explanation.choice_criteria[1] = "time horizon"
    /\ Out.explanation.choice_criteria[2] = "liquidity needs"

(***************************************************************************)
(* Properties of the baseline generate_recommendations picks (SpecClients) *)
(***************************************************************************)
\* the client is the one client_id asks for: client_id is its account number, or a
\* part of it, or a part of its name
RequestedClient(c) ==
    \/ c.client_account_number = client_id
    \/ InStr(LowerId(client_id), LowerId(c.client_name))
    \/ InStr(client_id, c.client_account_number)

\* the profile is the baseline of the call: the merged profile carries its state
UsedAsBaseline(profile) ==
    Get(Out.merged_profile_summary.suitability, "state") = profile.state

\* C27: generate_recommendations merges the delta only over a baseline that belongs
\* to the requested client: a profile whose client_account_number is not the requested
\* client's is never the baseline, and a client_id that matches no client does not
\* resolve to another client.
C27_Original ==
    Called =>
        \A i \in 1..Len(db_context.client_suitability_profiles) :
            LET profile == db_context.client_suitability_profiles[i]
            IN  UsedAsBaseline(profile) =>
                    \E j \in 1..Len(db_context.clients) :
                        /\ RequestedClient(db_context.clients[j])
                        /\ db_context.clients[j].client_account_number =
                               profile.client_account_number

(***************************************************************************)
(* Properties of POST /alerts (SpecPost)                                   *)
(***************************************************************************)
\* C29: every alert create_alerts writes satisfies the Alert invariant: its
\* alert_types list is non-empty and its first element is alert_type, including for a
\* policy with no flag set.
C29_Original ==
    \A i \in 1..Len(alerts_table) :
        /\ Len(alerts_table[i].alert_types) > 0
        /\ alerts_table[i].alert_types[1] = alerts_table[i].alert_type

(***************************************************************************)
(* Properties of build_profile_row_from_changes (SpecProfileRow)           *)
(***************************************************************************)
\* the delta fields a profile row takes, each with its section and its column
RowMap ==
    {<<"suitability", "riskTolerance", "risk_tolerance">>,
     <<"suitability", "timeHorizon", "investment_horizon">>,
     <<"suitability", "liquidityNeeds", "liquidity_importance">>,
     <<"suitability", "clientObjectives", "primary_objective">>,
     <<"client_profile", "taxBracket", "tax_bracket">>,
     <<"client_profile", "householdNetWorth", "net_worth_range">>,
     <<"client_profile", "householdLiquidAssets", "liquid_net_worth_range">>,
     <<"client_profile", "grossIncome", "annual_income_range">>}

\* the delta's value for a mapped field, NONE when its section or the field is absent
DeltaValue(m) == IF Len(changes[m[1]]) = 0 THEN NONE ELSE changes[m[1]][1][m[2]]

ExistingValue(c) ==
    IF Len(built_row.existing_row) = 0 THEN NONE ELSE Get(built_row.existing_row[1], c)

\* C25: build_profile_row_from_changes returns a row whose client_account_number is
\* the given account, whose mapped columns equal the non-null delta values, and whose
\* remaining columns keep the non-null values of the existing row.
C25_ProfileRow ==
    Len(built_row.row) = 1 =>
        LET row == built_row.row[1]
        IN  /\ row["client_account_number"] = built_row.client_account_number
            /\ \A m \in RowMap : DeltaValue(m) # NONE => Get(row, m[3]) = DeltaValue(m)
            /\ \A c \in ProfileColumns :
                   (\A m \in RowMap : m[3] = c => DeltaValue(m) = NONE)
                       => Get(row, c) = ExistingValue(c)

\* an existing row of another account, with a risk tolerance and a tax bracket: the
\* delta replaces the risk tolerance, the tax bracket is kept, the key is the argument
C25_Witness ==
    /\ Len(built_row.row) = 1
    /\ Len(built_row.existing_row) = 1
    /\ built_row.existing_row[1].client_account_number = "ACCT009"
    /\ built_row.existing_row[1].risk_tolerance = "Conservative"
    /\ built_row.row[1]["risk_tolerance"] = "Moderate"
    /\ Get(built_row.row[1], "tax_bracket") = "32%"
    /\ built_row.row[1]["client_account_number"] = "ACCT002"

(***************************************************************************)
(* Properties of run_chat (SpecChat)                                       *)
(***************************************************************************)
\* C24: every call of run_chat persists exactly one audit event: with success = true
\* when the call returns a ChatResponse, and with success = false and the error
\* message when the call raises, the exception reaching the caller.
C24_Original ==
    \A i \in 1..Len(chat_calls) :
        LET c == chat_calls[i].call
        IN  /\ Len(c.events) = 1
            /\ Len(c.response) = 1 => c.events[1].success /\ c.raised = NONE
            /\ Len(c.response) = 0 =>
                   /\ ~c.events[1].success
                   /\ c.events[1].error_message = c.raised
                   /\ c.raised # NONE

(***************************************************************************)
(* Properties of the tool generate_product_recommendations                 *)
(***************************************************************************)
CallIndices == 1..Len(tool_calls)

\* the delta of the call is unparsable JSON, or JSON of the wrong shape
RejectedInput(call) ==
    LET loaded == json_loads(call.changes_json)
    IN  Len(loaded) = 0 \/ Len(model_validate(loaded[1])) = 0

\* the effects of the call other than the write of its audit event
EffectsBesideAudit(call) == SelectSeq(call.effects, LAMBDA e : e # "persist_event")

\* the optional IRI comparison of the call was attempted and the remote call failed
IriComparisonFailed(call) ==
    /\ \E i \in 1..Len(call.effects) : call.effects[i] = "run_iri_comparison"
    /\ call.env.iri_remote # "ok"

\* the first present of productId, ID, productCode, "" when there is none
FirstPresentId(e) ==
    IF e.productId # NONE THEN e.productId
    ELSE IF e.ID # NONE THEN e.ID
    ELSE IF e.productCode # NONE THEN e.productCode
    ELSE ""

\* the rate of the dedicated field, else of the attribute list, else "N/A"; a number
\* carries a "%"
CanonicalRate(e) ==
    LET r == IF e.rate.t # "none" THEN e.rate
             ELSE IF Len(e.attributes) > 0 THEN e.attributes[1].value
             ELSE RateNone
    IN  IF r.t = "none" THEN RateNA
        ELSE IF r.t \in {"num", "numstr"} THEN RateStr(r.n, TRUE)
        ELSE r

\* the recommendations of the call hold every product option that has an id, under
\* its canonical id and rate
Canonicalised(call) ==
    \A i \in 1..Len(product_options) :
        LET e == product_options[i]
            recs == call.result.out[1].recommendations
        IN  FirstPresentId(e) # "" =>
                \E k \in 1..Len(recs) :
                    /\ recs[k].product_id = FirstPresentId(e)
                    /\ recs[k].rate = CanonicalRate(e)

\* C19: every catalog entry is canonicalised, on every path that feeds the
\* recommendations, with product_id taken from the first present of productId, ID,
\* productCode, and with rate taken from the dedicated rate field or else from the
\* attribute list ("N/A" when neither exists), a bare numeric rate getting a "%".
C19_Original ==
    \A i \in CallIndices :
        tool_calls[i].result.kind = "output" => Canonicalised(tool_calls[i])

\* C26: every invocation of generate_product_recommendations (agent_two/main.py)
\* emits exactly one AgentRunEvent, whether it returns or raises: success = false with
\* input_validation_passed = false when the input is rejected, success = false when
\* an exception reaches the caller, and success = true otherwise.
C26_Original ==
    \A i \in CallIndices :
        LET call == tool_calls[i]
        IN  call.handler = "agent_two/main.py" =>
                /\ Len(call.events) = 1
                /\ call.result.kind = "error" =>
                       /\ ~call.events[1].success
                       /\ call.events[1].input_validation_passed = <<FALSE>>
                /\ call.result.kind = "raised" => ~call.events[1].success
                /\ call.result.kind = "output" => call.events[1].success

\* C9: a call whose delta is unparsable JSON or JSON of the wrong shape is rejected
\* before any rule runs: the caller receives a structured error, no merge or
\* recommendation is computed, and (the audit event of the rejection aside) nothing
\* is persisted and no external call is made.
C9_Original ==
    \A i \in CallIndices :
        RejectedInput(tool_calls[i]) =>
            /\ tool_calls[i].result.kind = "error"
            /\ ~tool_calls[i].computed
            /\ EffectsBesideAudit(tool_calls[i]) = <<>>

\* C10: when the optional IRI comparison fails (the remote call errors or cannot be
\* reached), the run still succeeds and returns the recommendations, and
\* iri_comparison_result is absent from the output.
C10_Original ==
    \A i \in CallIndices :
        IriComparisonFailed(tool_calls[i]) =>
            /\ tool_calls[i].result.kind = "output"
            /\ tool_calls[i].result.out[1].iri_comparison_result = <<>>
====
